---- MODULE Spec2Model ----
(***************************************************************************)
(* Verification model of the retail data platform ETL:                     *)
(*   - DataCleaningPipeline / RetailDataCleaner / DuplicateHandler         *)
(*     (app/retail_data_platform/etl/cleaning.py)                          *)
(*   - ETLPipeline / ETLOrchestrator                                       *)
(*     (retail_data_platform/etl/pipeline.py)                              *)
(*   - RetailDataTransformer (both the pure one of app/ and the            *)
(*     dimension-resolving one of retail_data_platform/)                   *)
(*   - LoaderService (app/retail_data_platform/etl/loader.py)              *)
(*                                                                         *)
(* Text values are Python strings; conversions on them (strip, upper,      *)
(* regular expressions, numeric parsing) are given by their effect on the  *)
(* tokens that occur in RawRecords.  Money is kept in pence (Decimal       *)
(* quantized to 0.01), dates as YYYYMMDD integers.                         *)
(***************************************************************************)
EXTENDS Integers, Sequences, FiniteSets, TLC

VARIABLES
    \* ---- DataCleaningPipeline / DuplicateHandler state ----
    seen_keys,          \* DuplicateHandler.seen_keys
    duplicate_count,    \* DuplicateHandler.duplicate_count
    total_processed,    \* DataCleaningPipeline.total_processed
    total_cleaned,      \* DataCleaningPipeline.total_cleaned
    total_rejected,     \* DataCleaningPipeline.total_rejected
    clean_log,          \* history: the (record, outcome) of every clean_record call
    \* ---- the warehouse (schema retail_dw) ----
    dim_customer,       \* table dim_customer: sequence of rows, customer_key = position
    dim_product,        \* table dim_product: sequence of rows, product_key = position
    dim_date,           \* table dim_date: the set of date_key values
    fact_sales,         \* table fact_sales: sequence of rows
    data_versions,      \* table data_versions: sequence of rows, version_id = position
    \* ---- RetailDataTransformer.cache (DimensionLookupCache) ----
    cache_customer,     \* _caches['customer']: "customer_id|country" -> customer_key
    cache_product,      \* _caches['product']: stock_code -> product_key
    cache_date,         \* _caches['date']: the dates whose key is cached
    \* ---- ETLPipeline / ETLOrchestrator ----
    metrics,            \* ETLPipeline.metrics (ETLMetrics): status and counters
    pc,                 \* where execute_job is: created, extracting, returned, done
    batch,              \* the local batch of _execute_extract_stage
    records_processed,  \* the local records_processed of _execute_extract_stage
    batch_size,         \* config.batch_size
    checkpoint_data,    \* ETLCheckpoint.checkpoint_data: <<>> or <<records_processed>>
    lineage_status,     \* data_lineage.status of the run's row ("" when there is no row)
    running_jobs,       \* ETLOrchestrator.running_jobs holds the pipeline
    job_history,        \* ETLOrchestrator.job_history holds the run's metrics
    batches_processed,  \* history: number of _process_batch calls made
    cancelled_at,       \* history: batches_processed at the first cancel_job (-1: none)
    \* ---- several pipeline runs against one warehouse ----
    run_pc,             \* per run: created, loading, done
    run_version,        \* per run: the version_id execute holds (0: None)
    run_batches,        \* per run: number of batches loaded
    \* ---- two runs resolving one customer_id ----
    lk_impl,            \* which resolver the runs use ("transformer" or "loader")
    lk_country,         \* per run: the country of the record being resolved
    lk_index,           \* the unique index on dim_customer.customer_id: none, partial, full
    lk_pc,              \* per run: start, read, done
    lk_seen,            \* per run: the row the query returned (0: none)
    lk_key,             \* per run: the customer_key returned (0: None)
    \* ---- LoaderService ----
    load_log,           \* history: one entry per load_fact_rows call
    \* ---- one record taken through RetailDataCleaner and RetailDataTransformer ----
    tx_pc,              \* idle, raw, cleaned, rejected, transformed
    tx_raw,             \* the record handed to the cleaner
    tx_severity,        \* RetailDataCleaner.validation_rules: rule name -> severity
    tx_clean,           \* what RetailDataCleaner.clean returned (None: rejected)
    tx_out,             \* what RetailDataTransformer.transform returned
    \* ---- DataQualityMonitor ----
    q_data,             \* the records check_data_quality is given
    q_results,          \* DataQualityMonitor.quality_results
    \* ---- the partitions of fact_sales ----
    partitions,         \* the partitions that exist: [name, from, to), to excluded
    part_call,          \* history: the last ensure_partitions_for_range call
    \* ---- DatabaseManager.execute_query ----
    eq_pc,              \* idle, attempting, sleeping, returned, raised
    eq_max_retries,     \* config.etl.max_retries
    eq_kind,            \* the statement: "select" returns rows, "ddl" does not
    eq_attempt,         \* the loop variable attempt
    eq_attempts,        \* history: executions of the statement started
    eq_wait,            \* the seconds the current time.sleep lasts
    eq_result,          \* what the call returned
    \* ---- DimensionLookupCache with a small cache_size ----
    lc_size,            \* cache_size
    lc_caches,          \* _caches: namespace -> the dict's items in insertion order
    lc_last,            \* history: the last set_* call and the caches it found
    lc_calls,           \* history: set_* calls made
    \* ---- the checkpoints of one extraction stage ----
    ck_pc,              \* idle, extracting, done, failed
    ck_batch_size,      \* config.batch_size
    ck_interval,        \* config.checkpoint_interval
    ck_processed,       \* the local records_processed
    ck_batch,           \* len(batch)
    ck_saved,           \* history: records_processed of every save_checkpoint('extraction', ..)
    \* ---- the product attributes load_fact_rows folds over one batch ----
    pf_rows,            \* the rows of the batch
    pf_attrs,           \* prod_attrs: stock code -> folded attributes (None: not folded yet)
    \* ---- _lookup_customer_key calls made one after another ----
    scd_last,           \* history: the last call's customer_id, country and returned key
    scd_calls,          \* history: calls made
    \* ---- ETLScheduler and its loop threads ----
    sch_is_running,     \* ETLScheduler.is_running
    sch_stop_event,     \* _stop_event is set
    sch_thread,         \* _thread: the loop thread started last (0: None)
    sch_threads,        \* every loop thread started: [pc, todo, job]
    sch_caller,         \* the thread calling start and stop: idle, or joining inside stop
    sch_pending,        \* the scheduled jobs whose next_run has passed
    sch_due,            \* history: due times that have passed
    sch_starts,         \* history: job -> due time -> times _run_job was started
    sch_late_start,     \* history: a job run began after stop() returned and before the next start()
    \* ---- JobManager, the jobs file and the scheduler's registrations ----
    jm_file,            \* .scheduled_jobs.json: the persisted job list
    jm_meta,            \* ETLScheduler._jobs_meta: name -> [csv_path, time]
    jm_refs,            \* ETLScheduler._scheduled_refs: name -> schedule job
    jm_schedule,        \* the jobs the schedule module holds: [id, name, csv_path, time]
    jm_last,            \* history: name -> the arguments of the last create_daily_job
    jm_calls            \* history: JobManager calls made

cleanVars == <<seen_keys, duplicate_count, total_processed, total_cleaned,
               total_rejected, clean_log>>
dwVars == <<dim_customer, dim_product, dim_date, fact_sales>>
cacheVars == <<cache_customer, cache_product, cache_date>>

pipeVars == <<metrics, pc, batch, records_processed, batch_size, checkpoint_data,
              lineage_status, running_jobs, job_history, batches_processed,
              cancelled_at>>

runVars == <<run_pc, run_version, run_batches>>
lookupVars == <<lk_impl, lk_country, lk_index, lk_pc, lk_seen, lk_key>>

loadVars == <<load_log>>
txVars == <<tx_pc, tx_raw, tx_severity, tx_clean, tx_out>>
qVars == <<q_data, q_results>>
partVars == <<partitions, part_call>>
eqVars == <<eq_pc, eq_max_retries, eq_kind, eq_attempt, eq_attempts, eq_wait, eq_result>>
lcVars == <<lc_size, lc_caches, lc_last, lc_calls>>
ckVars == <<ck_pc, ck_batch_size, ck_interval, ck_processed, ck_batch, ck_saved>>
pfVars == <<pf_rows, pf_attrs>>
scdVars == <<scd_last, scd_calls>>
schVars == <<sch_is_running, sch_stop_event, sch_thread, sch_threads, sch_caller,
             sch_pending, sch_due, sch_starts, sch_late_start>>
jmVars == <<jm_file, jm_meta, jm_refs, jm_schedule, jm_last, jm_calls>>
svcVars == <<eqVars, lcVars, ckVars, pfVars, scdVars, schVars, jmVars>>
unitVars == <<txVars, qVars, partVars, svcVars>>

vars == <<cleanVars, dwVars, data_versions, cacheVars, pipeVars, runVars, lookupVars,
          loadVars, unitVars>>

\* the variables each specification leaves alone
CleanerIdle == <<dwVars, data_versions, cacheVars, pipeVars, runVars, lookupVars, loadVars,
                 unitVars>>
PipelineIdle == <<runVars, lookupVars, loadVars, unitVars>>
RunsIdle == <<cleanVars, cacheVars, pipeVars, lookupVars, loadVars, unitVars>>
LookupIdle == <<cleanVars, data_versions, cacheVars, pipeVars, runVars, loadVars, unitVars>>
LoaderIdle == <<cleanVars, data_versions, pipeVars, runVars, lookupVars, unitVars>>
WarehouseIdle == <<cleanVars, dwVars, data_versions, cacheVars, pipeVars, runVars,
                   lookupVars, loadVars>>

(***************************************************************************)
(* Bounds of the model.                                                    *)
(***************************************************************************)
MaxRecords == 3         \* clean_record calls on one DataCleaningPipeline
MaxSourceRecords == 3   \* records the source yields in one pipeline run
MaxBatchSize == 2       \* config.batch_size ranges over 1..MaxBatchSize
CheckpointInterval == 2 \* config.checkpoint_interval, scaled to the run length
NumRuns == 2            \* pipeline runs against one warehouse
MaxBatchesPerRun == 2   \* batches one of several runs loads
MaxLoads == 2           \* load_fact_rows calls made on one loader

Runs == 1..NumRuns

(***************************************************************************)
(* Python's None.                                                          *)
(***************************************************************************)
None == [none |-> TRUE]

Abs(n) == IF n < 0 THEN 0 - n ELSE n

(***************************************************************************)
(* Raw input records: every value is text, as CSVDataSource reads them     *)
(* (dtype=str, keep_default_na=False).                                     *)
(***************************************************************************)
Raw(inv, sc, desc, qty, dt, price, cust, country) ==
    [InvoiceNo |-> inv, StockCode |-> sc, Description |-> desc, Quantity |-> qty,
     InvoiceDate |-> dt, UnitPrice |-> price, CustomerID |-> cust, Country |-> country]

\* spec scenario 1: a simple sale
R_sale == Raw("536365", "85123A", "WHITE HANGING HEART", "2",
              "2010-12-01 08:26:00", "3.50", "17850", "United Kingdom")
\* the same invoice line typed with surrounding blanks and lower case
R_sale_ws == Raw(" 536365", "85123a", "WHITE HANGING HEART", "6",
                 "2010-12-01 08:26:00", "3.50", "17850", "UK")
\* the same invoice line with a zero quantity
R_sale_zero == Raw("536365", "85123A", "WHITE HANGING HEART", "0",
                   "2010-12-01 08:26:00", "3.50", "17850", "United Kingdom")
\* spec scenario 2: a return on a credit invoice
R_return == Raw("C536379", "22629", "SPACEBOY LUNCH BOX", "-1",
                "2010-12-01 09:41:00", "1.95", "14527", "United Kingdom")
\* spec scenario 3: a fee without customer
R_fee == Raw("573585", "AMAZONFEE", "AMAZON FEE", "1",
             "2011-10-31 14:00:00", "11.62", "", "United Kingdom")
\* a negative price
R_negprice == Raw("536367", "84406B", "CREAM CUPID HEARTS", "1",
                  "2010-12-01 08:34:00", "-1.00", "13047", "France")
\* no quantity
R_noqty == Raw("536368", "22960", "JAM MAKING SET", "",
               "2010-12-01 08:34:00", "4.25", "13047", "France")
\* a non-credit invoice with a negative quantity
R_adjust == Raw("536370", "22728", "ALARM CLOCK", "-3",
                "2010-12-02 08:45:00", "3.75", "12583", "France")
\* a second line of the first invoice
R_sale_line2 == Raw("536365", "71053", "WHITE METAL LANTERN", "6",
                    "2010-12-01 08:26:00", "3.75", "17850", "United Kingdom")

RawRecords == {R_sale, R_sale_ws, R_sale_zero, R_return, R_fee, R_negprice,
               R_noqty, R_adjust, R_sale_line2}

(***************************************************************************)
(* Text conversions, by their effect on the tokens of RawRecords.          *)
(***************************************************************************)
\* str.strip()
Strip(s) ==
    CASE s = " 536365" -> "536365"
      [] s = " "       -> ""
      [] OTHER         -> s

\* str.upper()
Upper(s) ==
    CASE s = "85123a"  -> "85123A"
      [] s = "Unknown" -> "UNKNOWN"
      [] s = "post"    -> "POST"
      [] OTHER         -> s

\* str.title() followed by the country_mapping lookup of _clean_country
TitleCountry(s) ==
    CASE s = "UK" -> "Uk"
      [] OTHER    -> s

\* re.sub(r'\s+', ' ', s).strip().title(), trailing punctuation removed
TitleText(s) ==
    CASE s = "WHITE HANGING HEART" -> "White Hanging Heart"
      [] s = "SPACEBOY LUNCH BOX"  -> "Spaceboy Lunch Box"
      [] s = "AMAZON FEE"          -> "Amazon Fee"
      [] s = "CREAM CUPID HEARTS"  -> "Cream Cupid Hearts"
      [] s = "JAM MAKING SET"      -> "Jam Making Set"
      [] s = "ALARM CLOCK"         -> "Alarm Clock"
      [] s = "WHITE METAL LANTERN" -> "White Metal Lantern"
      [] s = "POSTAGE"             -> "Postage"
      [] OTHER                     -> s

\* re.match(r'^[C]?\d{5,7}[A-Z]?$', s)
MatchesInvoiceFormat(s) ==
    s \in {"536365", "536366", "536367", "536368", "536370", "573585", "C536379",
           "C567125"}

\* int(float(re.sub(r'[^\d\-\.]', '', s.strip())))
ParseQuantity(s) ==
    CASE s = "2"  -> 2
      [] s = "6"  -> 6
      [] s = "1"  -> 1
      [] s = "0"  -> 0
      [] s = "-1" -> 0 - 1
      [] s = "-3" -> 0 - 3
      [] OTHER    -> 0          \* ValueError: _clean_quantity returns 0

\* Decimal(re.sub(r'[£$€\s,]', '', s.strip())).quantize(Decimal('0.01')), in pence
ParsePrice(s) ==
    CASE s = "3.50"  -> 350
      [] s = "1.95"  -> 195
      [] s = "11.62" -> 1162
      [] s = "4.25"  -> 425
      [] s = "3.75"  -> 375
      [] s = "-1.00" -> 0 - 100
      [] OTHER       -> 0       \* InvalidOperation: _clean_unit_price returns 0.00

\* datetime.strptime(s, '%Y-%m-%d %H:%M:%S').date() as YYYYMMDD; 0 when no format
\* parses the text (the rule raises ValueError and the text stays in the record)
ParseDate(s) ==
    CASE s = "2010-12-01 08:26:00" -> 20101201
      [] s = "2010-12-01 09:41:00" -> 20101201
      [] s = "2010-12-01 08:34:00" -> 20101201
      [] s = "2010-12-02 08:45:00" -> 20101202
      [] s = "2011-10-31 14:00:00" -> 20111031
      [] OTHER                     -> 0

\* int(s) for s.isdigit(), else 0
ParseInvoiceInt(s) ==
    CASE s = "536365" -> 536365
      [] s = "536366" -> 536366
      [] s = "536367" -> 536367
      [] s = "536368" -> 536368
      [] s = "536370" -> 536370
      [] s = "536379" -> 536379
      [] s = "573585" -> 573585
      [] s = "567125" -> 567125
      [] OTHER        -> 0

\* s.startswith('C')
StartsWithC(s) == s \in {"C536379", "C567125", "C2", "CRUK"}

\* s[1:] of a string that starts with 'C'
DropFirst(s) ==
    CASE s = "C536379" -> "536379"
      [] s = "C567125" -> "567125"
      [] OTHER         -> s

(***************************************************************************)
(* MissingValueHandler                                                     *)
(***************************************************************************)
Columns == {"InvoiceNo", "StockCode", "Description", "Quantity", "InvoiceDate",
            "UnitPrice", "CustomerID", "Country"}

\* MissingValueHandler._is_missing
is_missing(value) == Strip(value) = ""

\* DataCleaningPipeline._get_default_config()['missing_value_strategies'],
\* read with strategy_map.get(column, "fill_unknown")
strategy_map(column) ==
    CASE column \in {"Quantity", "UnitPrice", "InvoiceDate"} -> "drop"
      [] OTHER -> "fill_unknown"

\* MissingValueHandler._apply_strategy (no reference_data is ever passed)
apply_strategy(strategy) == IF strategy = "fill_zero" THEN "0" ELSE "Unknown"

\* MissingValueHandler.handle_missing
handle_missing(record) ==
    IF \E c \in Columns : is_missing(record[c]) /\ strategy_map(c) = "drop"
    THEN None
    ELSE [c \in Columns |->
            IF is_missing(record[c]) THEN apply_strategy(strategy_map(c))
            ELSE record[c]]

(***************************************************************************)
(* RetailDataCleaner: cleaning rules                                       *)
(***************************************************************************)
clean_invoice_number(s) == IF s = "" THEN "" ELSE Upper(Strip(s))

clean_stock_code(s) == IF s = "" THEN "" ELSE Upper(Strip(s))

clean_description(s) == IF s = "" THEN "" ELSE TitleText(s)

clean_quantity(s) == IF s = "" THEN 0 ELSE ParseQuantity(s)

clean_unit_price(s) == IF s = "" THEN 0 ELSE ParsePrice(s)

clean_customer_id(s) == IF s = "" THEN "" ELSE Strip(s)

clean_country(s) ==
    IF s = "" THEN ""
    ELSE LET t == TitleCountry(Strip(s)) IN
         CASE t = "Uk"  -> "United Kingdom"
           [] t = "Usa" -> "United States"
           [] t = "Uae" -> "United Arab Emirates"
           [] t = "Rsa" -> "South Africa"
           [] OTHER     -> t

clean_date(s) == ParseDate(Strip(s))

\* date.today() as YYYYMMDD
Today == 20261102
\* date(2009, 1, 1)
MinInvoiceDate == 20090101

(***************************************************************************)
(* RetailDataCleaner: validation rules, each with its severity             *)
(***************************************************************************)
validate_invoice_format(rec) == MatchesInvoiceFormat(rec.InvoiceNo)
validate_quantity_exists(rec) == rec.Quantity /= 0
validate_non_negative_price(rec) == rec.UnitPrice >= 0
validate_date_range(rec) ==
    rec.InvoiceDate /= 0 /\ MinInvoiceDate <= rec.InvoiceDate /\ rec.InvoiceDate <= Today

\* the rule list of _initialize_validation_rules: every rule has the default
\* severity "ERROR"
validation_failures(rec) ==
    {n \in {"validate_invoice_format", "validate_quantity_exists",
            "validate_non_negative_price", "validate_date_range"} :
        CASE n = "validate_invoice_format"     -> ~validate_invoice_format(rec)
          [] n = "validate_quantity_exists"    -> ~validate_quantity_exists(rec)
          [] n = "validate_non_negative_price" -> ~validate_non_negative_price(rec)
          [] OTHER                             -> ~validate_date_range(rec)}

\* the cleaning-rule phase of RetailDataCleaner.clean
apply_cleaning_rules(rec) ==
    [InvoiceNo   |-> clean_invoice_number(rec.InvoiceNo),
     StockCode   |-> clean_stock_code(rec.StockCode),
     Description |-> clean_description(rec.Description),
     Quantity    |-> clean_quantity(rec.Quantity),
     UnitPrice   |-> clean_unit_price(rec.UnitPrice),
     CustomerID  |-> clean_customer_id(rec.CustomerID),
     Country     |-> clean_country(rec.Country),
     InvoiceDate |-> clean_date(rec.InvoiceDate)]

\* RetailDataCleaner.validation_rules, in the order of the list
ValidationRules == <<"validate_invoice_format", "validate_quantity_exists",
                     "validate_non_negative_price", "validate_date_range">>

\* ValidationRule.severity of the rules _initialize_validation_rules builds
DefaultSeverity == [k \in 1..Len(ValidationRules) |-> "ERROR"]

\* the validation loop of RetailDataCleaner.clean from rule k on; st holds
\* validation_passed and the rules logged as errors and as warnings
RECURSIVE apply_validation_rules(_, _, _, _)
apply_validation_rules(cleaned_data, severity, k, st) ==
    IF k > Len(ValidationRules) THEN st
    ELSE IF ValidationRules[k] \notin validation_failures(cleaned_data)
    THEN apply_validation_rules(cleaned_data, severity, k + 1, st)
    ELSE IF severity[k] = "ERROR"
    THEN apply_validation_rules(cleaned_data, severity, k + 1,
             [validation_passed |-> FALSE,
              errors |-> st.errors \cup {k}, warnings |-> st.warnings])
    ELSE apply_validation_rules(cleaned_data, severity, k + 1,
             [validation_passed |-> FALSE,
              errors |-> st.errors, warnings |-> st.warnings \cup {k}])

\* RetailDataCleaner.clean under the given rule severities: the cleaned
\* record, or None when validation_passed has been cleared
clean_with_rules(rec, severity) ==
    LET cleaned_data == apply_cleaning_rules(rec)
        st == apply_validation_rules(cleaned_data, severity, 1,
                  [validation_passed |-> TRUE, errors |-> {}, warnings |-> {}])
    IN IF st.validation_passed THEN cleaned_data ELSE None

\* RetailDataCleaner.clean: the cleaned record, or None when a validation fails
clean(rec) == clean_with_rules(rec, DefaultSeverity)

(***************************************************************************)
(* DuplicateHandler                                                        *)
(***************************************************************************)
\* a key made of the invoice number alone
composite_key_invoice_only(rec) == rec.InvoiceNo

\* '|'.join(str(record.get(col, '')) for col in key_columns)
composite_key(rec) == rec.InvoiceNo \o "|" \o rec.StockCode

\* a duplicate handler that never remembers a key
is_duplicate_forgetful(rec, seen) == [dup |-> composite_key(rec) \in seen, seen |-> seen]

\* DuplicateHandler.is_duplicate: the answer and the key set it leaves
is_duplicate(rec, seen) ==
    IF composite_key(rec) \in seen
    THEN [dup |-> TRUE, seen |-> seen]
    ELSE [dup |-> FALSE, seen |-> seen \cup {composite_key(rec)}]

(***************************************************************************)
(* DataCleaningPipeline.clean_record, as a function of the record and of   *)
(* the keys seen so far: the result (a cleaned record or None), the reason *)
(* of a rejection, and the keys seen afterwards.                           *)
(***************************************************************************)
clean_record(record, seen) ==
    LET filled == handle_missing(record) IN
    IF filled = None
    THEN [result |-> None, reason |-> "missing", seen |-> seen]
    ELSE LET cleaned_record == clean(filled) IN
         IF cleaned_record = None
         THEN [result |-> None, reason |-> "validation", seen |-> seen]
         ELSE LET d == is_duplicate(cleaned_record, seen) IN
              IF d.dup
              THEN [result |-> None, reason |-> "duplicate", seen |-> d.seen]
              ELSE [result |-> cleaned_record, reason |-> "", seen |-> d.seen]

\* what the stateless part of the cleaner (missing values, cleaning rules,
\* validation) makes of a raw record
StatelessResult(r) ==
    LET filled == handle_missing(r) IN
    IF filled = None THEN None ELSE clean(filled)

StatelessReason(r) ==
    IF handle_missing(r) = None THEN "missing"
    ELSE IF StatelessResult(r) = None THEN "validation" ELSE ""

PassesRules(r) == StatelessResult(r) /= None

(***************************************************************************)
(* The warehouse tables and their constraints                              *)
(***************************************************************************)
\* a function as a dict: dict[k] = v
Put(f, k, v) == (k :> v) @@ f

EmptyDict == <<>>

\* retail_dw.dim_customer row
CustomerRow(key, cid, ctry, current) ==
    [customer_key |-> key, customer_id |-> cid, country |-> ctry,
     is_current |-> current, version_id |-> 0]

\* retail_dw.dim_product row
ProductRow(key, sc, desc, cat, sub, gift) ==
    [product_key |-> key, stock_code |-> sc, description |-> desc, category |-> cat,
     subcategory |-> sub, is_gift |-> gift, version_id |-> 0]

\* CREATE UNIQUE INDEX idx_dim_customer_one_current
\*   ON dim_customer (customer_id) WHERE is_current = true
idx_dim_customer_one_current(table) ==
    \A i, j \in 1..Len(table) :
        (table[i].is_current /\ table[j].is_current
         /\ table[i].customer_id = table[j].customer_id) => i = j

\* FactSales (0 stands for NULL): NOT NULL keys, chk_quantity_positive, chk_unit_price_non_negative,
\* and chk_line_total_calculation of SchemaManager._create_additional_constraints
FactConstraintsHold(row) ==
    /\ row.date_key /= 0 /\ row.customer_key /= 0 /\ row.product_key /= 0
    /\ row.quantity > 0
    /\ row.unit_price >= 0
    /\ row.line_total = row.quantity * row.unit_price

(***************************************************************************)
(* RetailDataTransformer of retail_data_platform/etl/transformation.py:    *)
(* the transformer the pipeline runs, which resolves the dimension keys    *)
(* while it transforms.  ts is the state it works on: the dimension tables *)
(* and its lookup cache.                                                   *)
(***************************************************************************)
\* '.' in s and s.endswith('.0') never holds for the tokens of RawRecords
standardize_customer_id(cid) ==
    IF cid = "" \/ cid = "Unknown" THEN "GUEST" ELSE Strip(cid)

\* RetailDataTransformer._derive_product_category, on cleaned descriptions
derive_product_category(description) ==
    CASE description = "White Hanging Heart" -> "Home Decor"
      [] description = "Cream Cupid Hearts"  -> "Home Decor"
      [] description = "Spaceboy Lunch Box"  -> "Bags & Storage"
      [] description = "White Metal Lantern" -> "Lighting"
      [] OTHER                               -> "General Merchandise"

\* RetailDataTransformer._is_gift_product: none of GIFT, PRESENT, VALENTINE,
\* CHRISTMAS occurs in the descriptions of RawRecords
is_gift_product(description) == FALSE

\* the current dim_customer rows of a customer_id
CurrentCustomerRows(table, cid) ==
    {i \in 1..Len(table) : table[i].customer_id = cid /\ table[i].is_current}

\* RetailDataTransformer._lookup_customer_key, run without interruption
lookup_customer_key(ts, customer_id, country) ==
    LET cache_key == customer_id \o "|" \o country IN
    IF cache_key \in DOMAIN ts.cache_customer
    THEN [ts |-> ts, key |-> ts.cache_customer[cache_key]]
    ELSE
      LET cur == CurrentCustomerRows(ts.dim_customer, customer_id)
          new_key == Len(ts.dim_customer) + 1
          new_row == CustomerRow(new_key, customer_id, country, TRUE)
      IN
      IF cur /= {}
      THEN LET i == CHOOSE x \in cur : TRUE IN
           IF ts.dim_customer[i].country /= country
           THEN \* close the existing row and open a new one
                [ts |-> [ts EXCEPT
                           !.dim_customer =
                               Append([ts.dim_customer EXCEPT ![i].is_current = FALSE],
                                      new_row),
                           !.cache_customer = Put(ts.cache_customer, cache_key, new_key)],
                 key |-> new_key]
           ELSE [ts |-> [ts EXCEPT
                           !.cache_customer = Put(ts.cache_customer, cache_key, i)],
                 key |-> i]
      ELSE [ts |-> [ts EXCEPT
                      !.dim_customer = Append(ts.dim_customer, new_row),
                      !.cache_customer = Put(ts.cache_customer, cache_key, new_key)],
            key |-> new_key]

\* the dim_product rows of a stock code
ProductRows(table, sc) == {i \in 1..Len(table) : table[i].stock_code = sc}

\* RetailDataTransformer._lookup_product_key
lookup_product_key(ts, stock_code, description) ==
    IF stock_code \in DOMAIN ts.cache_product
    THEN [ts |-> ts, key |-> ts.cache_product[stock_code]]
    ELSE
      LET ex == ProductRows(ts.dim_product, stock_code)
          new_key == Len(ts.dim_product) + 1
      IN
      IF ex /= {}
      THEN LET i == CHOOSE x \in ex : TRUE IN
           [ts |-> [ts EXCEPT
                      !.dim_product =
                          IF description /= ""
                             /\ Len(description) > Len(ts.dim_product[i].description)
                          THEN [ts.dim_product EXCEPT ![i].description = description]
                          ELSE ts.dim_product,
                      !.cache_product = Put(ts.cache_product, stock_code, i)],
            key |-> i]
      ELSE [ts |-> [ts EXCEPT
                      !.dim_product =
                          Append(ts.dim_product,
                                 ProductRow(new_key, stock_code, description,
                                            derive_product_category(description), "",
                                            is_gift_product(description))),
                      !.cache_product = Put(ts.cache_product, stock_code, new_key)],
            key |-> new_key]

\* RetailDataTransformer._lookup_date_key: date_key = int(strftime('%Y%m%d')),
\* the dim_date row is created when it is missing
lookup_date_key(ts, date_value) ==
    [ts |-> [ts EXCEPT !.dim_date = ts.dim_date \cup {date_value},
                       !.cache_date = ts.cache_date \cup {date_value}],
     key |-> date_value]

\* RetailDataTransformer.transform followed by
\* BusinessRuleEngine.apply_retail_business_rules (which only adds fields):
\* DataTransformationPipeline.transform_record on a cleaned record
transform_record(ts, record, ingestion_batch_id) ==
    LET original_invoice == Strip(record.InvoiceNo)
        is_return == StartsWithC(original_invoice)
        customer_id_std == standardize_customer_id(record.CustomerID)
        transaction_date == record.InvoiceDate
        c == lookup_customer_key(ts, customer_id_std, record.Country)
        p == lookup_product_key(c.ts, record.StockCode, record.Description)
        d == lookup_date_key(p.ts, transaction_date)
    IN
    [ts |-> d.ts,
     rec |-> [invoice_no |-> IF is_return
                             THEN ParseInvoiceInt(DropFirst(original_invoice))
                             ELSE ParseInvoiceInt(original_invoice),
              transaction_type |-> IF is_return THEN "RETURN" ELSE "SALE",
              quantity |-> Abs(record.Quantity),
              line_total |-> IF is_return
                             THEN record.Quantity * record.UnitPrice
                             ELSE Abs(record.Quantity * record.UnitPrice),
              unit_price |-> record.UnitPrice,
              customer_key |-> c.key,
              product_key |-> p.key,
              date_key |-> d.key,
              customer_id_std |-> customer_id_std,
              transaction_date |-> transaction_date,
              batch_id |-> ingestion_batch_id]]

(***************************************************************************)
(* ETLPipeline (retail_data_platform/etl/pipeline.py)                      *)
(***************************************************************************)
\* CSVDataSource._validate_record: float(s) succeeds
IsFloatText(s) == s \in {"2", "6", "1", "0", "-1", "-3",
                         "3.50", "1.95", "11.62", "4.25", "3.75", "-1.00"}

\* CSVDataSource._validate_record
validate_record(record) ==
    /\ \A f \in {"InvoiceNo", "StockCode", "Quantity", "InvoiceDate", "UnitPrice"} :
           record[f] /= "" /\ Strip(record[f]) /= ""
    /\ IsFloatText(record.Quantity)
    /\ IsFloatText(record.UnitPrice)

\* the records CSVDataSource.read_data yields
SourceRecords == {r \in RawRecords : validate_record(r)}

\* the state of the DataCleaningPipeline, as one value
CleanerState ==
    [seen_keys |-> seen_keys, duplicate_count |-> duplicate_count,
     total_processed |-> total_processed, total_cleaned |-> total_cleaned,
     total_rejected |-> total_rejected, clean_log |-> clean_log]

\* the state the transformer works on, as one value
TransformerState ==
    [dim_customer |-> dim_customer, dim_product |-> dim_product, dim_date |-> dim_date,
     cache_customer |-> cache_customer, cache_product |-> cache_product,
     cache_date |-> cache_date]

\* the counters of DataCleaningPipeline after a clean_record call with outcome c
CleanerApplied(cs, record, c) ==
    [cs |-> [seen_keys |-> c.seen,
             duplicate_count |->
                 cs.duplicate_count + (IF c.reason = "duplicate" THEN 1 ELSE 0),
             total_processed |-> cs.total_processed + 1,
             total_cleaned |-> cs.total_cleaned + (IF c.result = None THEN 0 ELSE 1),
             total_rejected |-> cs.total_rejected + (IF c.result = None THEN 1 ELSE 0),
             clean_log |-> Append(cs.clean_log,
                                  [rec |-> record, result |-> c.result,
                                   reason |-> c.reason])],
     result |-> c.result]

\* one DataCleaningPipeline.clean_record(record) call on cleaner state cs
CleanerApply(cs, record) ==
    CleanerApplied(cs, record, clean_record(record, cs.seen_keys))

\* the cleaning stage of _process_batch: the cleaner state it leaves and the
\* cleaned records, in order
CleaningStage(cs, records) ==
    LET stage[i \in 0..Len(records)] ==
            IF i = 0 THEN [cs |-> cs, out |-> <<>>]
            ELSE LET a == CleanerApply(stage[i - 1].cs, records[i]) IN
                 [cs |-> a.cs,
                  out |-> IF a.result = None THEN stage[i - 1].out
                          ELSE Append(stage[i - 1].out, a.result)]
    IN  stage[Len(records)]

\* the transformation stage of _process_batch
TransformationStage(ts, cleaned_records, ingestion_batch_id) ==
    LET stage[i \in 0..Len(cleaned_records)] ==
            IF i = 0 THEN [ts |-> ts, out |-> <<>>]
            ELSE LET a == transform_record(stage[i - 1].ts, cleaned_records[i],
                                           ingestion_batch_id)
                 IN  [ts |-> a.ts, out |-> Append(stage[i - 1].out, a.rec)]
    IN  stage[Len(cleaned_records)]

\* the FactSales row _load_batch_to_warehouse builds from a transformed record
FactRow(record) ==
    [date_key |-> record.date_key, customer_key |-> record.customer_key,
     product_key |-> record.product_key, invoice_no |-> record.invoice_no,
     transaction_type |-> record.transaction_type, quantity |-> record.quantity,
     unit_price |-> record.unit_price, line_total |-> record.line_total,
     batch_id |-> record.batch_id, version_id |-> 0]

FactRows(records) == [i \in 1..Len(records) |-> FactRow(records[i])]

\* session.commit() of a list of fact rows succeeds when the database is
\* reachable (db_ok) and every row satisfies the table's constraints
CommitSucceeds(rows, db_ok) ==
    db_ok /\ \A i \in 1..Len(rows) : FactConstraintsHold(rows[i])

\* DataIngestionManager.batch_id (a uuid4) of the ingestion manager of run r
BatchIdOf(r) == IF r = 1 THEN "job1" ELSE IF r = 2 THEN "job2" ELSE "job3"

\* ETLPipeline._load_batch_to_warehouse on the records tr.out, after the
\* cleaning stage left cl and the transformation stage left tr: the pipeline
\* state it leaves, and whether it raised
load_batch_to_warehouse(cl, tr, facts, m, db_ok) ==
    LET rows == FactRows(tr.out) IN
    IF rows = <<>>
    THEN [cs |-> cl.cs, ts |-> tr.ts, facts |-> facts, m |-> m, raised |-> FALSE]
    ELSE IF CommitSucceeds(rows, db_ok)
    THEN [cs |-> cl.cs, ts |-> tr.ts, facts |-> facts \o rows,
          m |-> [m EXCEPT !.records_loaded = @ + Len(rows)], raised |-> FALSE]
    ELSE [cs |-> cl.cs, ts |-> tr.ts, facts |-> facts,
          m |-> [m EXCEPT !.loading_errors = @ + 1], raised |-> TRUE]

\* the transformation and loading stages of _process_batch, after the cleaning
\* stage left cl: a record clean_record rejected counts as rejected
process_cleaned(cl, ts, facts, m, n_batch, db_ok) ==
    load_batch_to_warehouse(
        cl, TransformationStage(ts, cl.out, BatchIdOf(1)), facts,
        [m EXCEPT !.records_cleaned = @ + Len(cl.out),
                  !.records_rejected = @ + (n_batch - Len(cl.out)),
                  !.records_transformed = @ + Len(cl.out)],
        db_ok)

\* ETLPipeline._process_batch(batch) on the pipeline state: the cleaner state,
\* the transformer state, the fact table and the metrics it leaves, and whether
\* _load_batch_to_warehouse raised
process_batch(cs, ts, facts, m, the_batch, db_ok) ==
    process_cleaned(CleaningStage(cs, the_batch), ts, facts, m, Len(the_batch), db_ok)

\* ETLPipeline._tag_data_with_version: UPDATE ... SET version_id = :version_id
\* WHERE version_id IS NULL (0 stands for NULL)
tag_fact_sales(facts, version_id) ==
    [i \in 1..Len(facts) |->
        IF facts[i].version_id = 0 THEN [facts[i] EXCEPT !.version_id = version_id]
        ELSE facts[i]]

tag_dim_customer(table, version_id) ==
    [i \in 1..Len(table) |->
        IF table[i].version_id = 0 /\ table[i].is_current
        THEN [table[i] EXCEPT !.version_id = version_id] ELSE table[i]]

tag_dim_product(table, version_id) ==
    [i \in 1..Len(table) |->
        IF table[i].version_id = 0 THEN [table[i] EXCEPT !.version_id = version_id]
        ELSE table[i]]

\* ETLPipeline.__init__: the metrics of a new pipeline
NewMetrics ==
    [status |-> "PENDING", records_extracted |-> 0, records_cleaned |-> 0,
     records_transformed |-> 0, records_loaded |-> 0, records_rejected |-> 0,
     extraction_errors |-> 0, cleaning_errors |-> 0, transformation_errors |-> 0,
     loading_errors |-> 0, version_id |-> 0]

PipelineInit ==
    /\ metrics = NewMetrics
    /\ pc = "created"
    /\ batch = <<>>
    /\ records_processed = 0
    /\ batch_size \in 1..MaxBatchSize
    /\ checkpoint_data = <<>>
    /\ lineage_status = ""
    /\ running_jobs = FALSE
    /\ job_history = FALSE
    /\ batches_processed = 0
    /\ cancelled_at = 0 - 1

\* the assignments to the cleaner, transformer and warehouse variables from the
\* values a batch leaves
SetCleaner(cs) ==
    /\ seen_keys' = cs.seen_keys
    /\ duplicate_count' = cs.duplicate_count
    /\ total_processed' = cs.total_processed
    /\ total_cleaned' = cs.total_cleaned
    /\ total_rejected' = cs.total_rejected
    /\ clean_log' = cs.clean_log

SetDimensions(ts) ==
    /\ dim_customer' = ts.dim_customer
    /\ dim_product' = ts.dim_product
    /\ dim_date' = ts.dim_date

SetCache(ts) ==
    /\ cache_customer' = ts.cache_customer
    /\ cache_product' = ts.cache_product
    /\ cache_date' = ts.cache_date

\* DimensionLookupCache.clear_all, called by ETLPipeline._cleanup
ClearCache ==
    /\ cache_customer' = EmptyDict
    /\ cache_product' = EmptyDict
    /\ cache_date' = {}

\* the except and finally branches of ETLPipeline.execute, entered with the
\* metrics m the failing stage left: status FAILED, the lineage row (when one
\* was written) completed as FAILED, then _cleanup
ExecuteFailed(m) ==
    /\ metrics' = [m EXCEPT !.status = "FAILED"]
    /\ lineage_status' = IF lineage_status /= "" THEN "FAILED" ELSE ""
    /\ ClearCache
    /\ checkpoint_data' = <<>>
    /\ pc' = "returned"

\* ETLPipeline._update_version_record_count
update_version_record_count(versions, facts, version_id) ==
    [versions EXCEPT ![version_id].records_count =
        Cardinality({i \in 1..Len(facts) : facts[i].version_id = version_id})]

\* ETLOrchestrator.execute_job up to the start of extraction: the pipeline is
\* registered in running_jobs, execute sets RUNNING, writes the lineage row
\* (_start_lineage_tracking returns "" when that fails) and the version row
\* (_create_version_for_job returns None when that fails)
StartRun ==
    /\ pc = "created"
    /\ \E lineage_ok, version_ok \in BOOLEAN :
          /\ lineage_status' = IF lineage_ok THEN "RUNNING" ELSE ""
          /\ data_versions' =
                 IF version_ok
                 THEN Append(data_versions,
                             [version_id |-> Len(data_versions) + 1, records_count |-> 0])
                 ELSE data_versions
          /\ metrics' = [metrics EXCEPT
                            !.status = "RUNNING",
                            !.version_id = IF version_ok THEN Len(data_versions) + 1 ELSE 0]
    /\ running_jobs' = TRUE
    /\ pc' = "extracting"
    /\ UNCHANGED <<PipelineIdle, cleanVars, dwVars, cacheVars, batch, records_processed, batch_size,
                   checkpoint_data, job_history, batches_processed, cancelled_at>>

\* the loop of _execute_extract_stage after _process_batch left r for the
\* full batch b, n records having been read: on an exception the run fails,
\* else the batch is emptied and a checkpoint is saved every
\* checkpoint_interval records
AfterFullBatch(r, b, n) ==
    /\ SetCleaner(r.cs)
    /\ SetDimensions(r.ts)
    /\ fact_sales' = r.facts
    /\ batches_processed' = batches_processed + 1
    /\ IF r.raised
       THEN /\ ExecuteFailed([r.m EXCEPT !.extraction_errors = @ + 1])
            /\ batch' = b
       ELSE /\ metrics' = [r.m EXCEPT !.records_extracted = @ + 1]
            /\ SetCache(r.ts)
            /\ batch' = <<>>
            /\ checkpoint_data' = IF n % CheckpointInterval = 0 THEN <<n>>
                                  ELSE checkpoint_data
            /\ UNCHANGED <<pc, lineage_status>>

\* one iteration of the loop of _execute_extract_stage: the source yields a
\* record; a full batch is processed; records_extracted is counted last
ExtractRecord ==
    /\ pc = "extracting"
    /\ records_processed < MaxSourceRecords
    /\ \E record \in SourceRecords :
       \E db_ok \in (IF Len(batch) + 1 >= batch_size THEN BOOLEAN ELSE {TRUE}) :
          /\ records_processed' = records_processed + 1
          /\ IF Len(batch) + 1 >= batch_size
             THEN AfterFullBatch(
                      process_batch(CleanerState, TransformerState, fact_sales, metrics,
                                    Append(batch, record), db_ok),
                      Append(batch, record), records_processed + 1)
             ELSE /\ batch' = Append(batch, record)
                  /\ metrics' = [metrics EXCEPT !.records_extracted = @ + 1]
                  /\ UNCHANGED <<cleanVars, dwVars, cacheVars, pc, lineage_status,
                                 checkpoint_data, batches_processed>>
    /\ UNCHANGED <<PipelineIdle, batch_size, data_versions, running_jobs, job_history, cancelled_at>>

\* the rest of execute after the extraction stage left r without an exception:
\* version tagging and record count (when a version row exists; the tagging
\* logs its own exceptions), quality checks, lineage completion as SUCCESS,
\* status SUCCESS, _cleanup
CompleteRun(r, facts, v, tagging) ==
    /\ fact_sales' = facts
    /\ dim_customer' = IF tagging THEN tag_dim_customer(r.ts.dim_customer, v)
                       ELSE r.ts.dim_customer
    /\ dim_product' = IF tagging THEN tag_dim_product(r.ts.dim_product, v)
                      ELSE r.ts.dim_product
    /\ dim_date' = r.ts.dim_date
    /\ data_versions' = IF v /= 0 THEN update_version_record_count(data_versions, facts, v)
                        ELSE data_versions
    /\ lineage_status' = IF lineage_status /= "" THEN "SUCCESS" ELSE ""
    /\ metrics' = [r.m EXCEPT !.status = "SUCCESS"]
    /\ ClearCache
    /\ checkpoint_data' = <<>>
    /\ pc' = "returned"

\* the end of the extraction stage with the result r of the remaining batch
AfterLastBatch(r, tag_ok) ==
    /\ SetCleaner(r.cs)
    /\ IF r.raised
       THEN /\ ExecuteFailed([r.m EXCEPT !.extraction_errors = @ + 1])
            /\ SetDimensions(r.ts)
            /\ fact_sales' = r.facts
            /\ UNCHANGED data_versions
       ELSE CompleteRun(r,
                        IF metrics.version_id /= 0 /\ tag_ok
                        THEN tag_fact_sales(r.facts, metrics.version_id) ELSE r.facts,
                        metrics.version_id,
                        metrics.version_id /= 0 /\ tag_ok)

\* the source is exhausted: the rest of _execute_extract_stage (the remaining
\* batch, the final checkpoint) and of execute
FinishExtract ==
    /\ pc = "extracting"
    /\ \E db_ok \in (IF batch /= <<>> THEN BOOLEAN ELSE {TRUE}) :
       \E tag_ok \in (IF metrics.version_id /= 0 THEN BOOLEAN ELSE {TRUE}) :
          AfterLastBatch(
              IF batch /= <<>>
              THEN process_batch(CleanerState, TransformerState, fact_sales, metrics,
                                 batch, db_ok)
              ELSE [cs |-> CleanerState, ts |-> TransformerState,
                    facts |-> fact_sales, m |-> metrics, raised |-> FALSE],
              tag_ok)
    /\ batches_processed' = batches_processed + (IF batch /= <<>> THEN 1 ELSE 0)
    /\ UNCHANGED <<PipelineIdle, batch, records_processed, batch_size, running_jobs, job_history,
                   cancelled_at>>

\* the source raises while it is read: ingest_from_source re-raises,
\* _execute_extract_stage counts an extraction error and execute fails
SourceError ==
    /\ pc = "extracting"
    /\ ExecuteFailed([metrics EXCEPT !.extraction_errors = @ + 1])
    /\ UNCHANGED <<PipelineIdle, cleanVars, dwVars, batch, records_processed, batch_size,
                   data_versions, running_jobs, job_history, batches_processed,
                   cancelled_at>>

\* ETLOrchestrator.execute_job for a CSV file that does not exist:
\* register_csv_source raises ValueError inside ETLPipeline.__init__
\* (_configure_sources), so execute_job never binds `pipeline`; its except
\* clause re-raises and its finally clause, reading pipeline.job_id, raises
\* UnboundLocalError.  execute never runs: no metrics are returned, and no
\* lineage row is written.
ConstructFailed ==
    /\ pc = "created"
    /\ pc' = "raised"
    /\ UNCHANGED <<PipelineIdle, cleanVars, dwVars, cacheVars, metrics, batch,
                   records_processed, batch_size, checkpoint_data, lineage_status,
                   data_versions, running_jobs, job_history, batches_processed,
                   cancelled_at>>

\* the end of ETLOrchestrator.execute_job: the metrics go to job_history and the
\* pipeline leaves running_jobs
FinishJob ==
    /\ pc = "returned"
    /\ job_history' = TRUE
    /\ running_jobs' = FALSE
    /\ pc' = "done"
    /\ UNCHANGED <<PipelineIdle, cleanVars, dwVars, cacheVars, metrics, batch, records_processed,
                   batch_size, checkpoint_data, lineage_status, data_versions,
                   batches_processed, cancelled_at>>

\* ETLOrchestrator.cancel_job(job_id), called from another thread
CancelJob ==
    /\ running_jobs
    /\ metrics' = [metrics EXCEPT !.status = "CANCELLED"]
    /\ cancelled_at' = IF cancelled_at < 0 /\ pc = "extracting"
                       THEN batches_processed ELSE cancelled_at
    /\ UNCHANGED <<PipelineIdle, cleanVars, dwVars, cacheVars, pc, batch, records_processed,
                   batch_size, checkpoint_data, lineage_status, data_versions,
                   running_jobs, job_history, batches_processed>>


(***************************************************************************)
(* Specification of the cleaner alone: clean_record called on any sequence *)
(* of up to MaxRecords raw records.                                        *)
(***************************************************************************)
CleanerInit ==
    /\ seen_keys = {}
    /\ duplicate_count = 0
    /\ total_processed = 0
    /\ total_cleaned = 0
    /\ total_rejected = 0
    /\ clean_log = <<>>

WarehouseInit ==
    /\ dim_customer = <<>>
    /\ dim_product = <<>>
    /\ dim_date = {}
    /\ fact_sales = <<>>
    /\ data_versions = <<>>

CacheInit ==
    /\ cache_customer = EmptyDict
    /\ cache_product = EmptyDict
    /\ cache_date = {}

RunsInit ==
    /\ run_pc = [r \in Runs |-> "created"]
    /\ run_version = [r \in Runs |-> 0]
    /\ run_batches = [r \in Runs |-> 0]

\* load_fact_rows has not been called
LoaderIdleInit == load_log = <<>>

\* no record is with the transformer
TransformIdleInit ==
    /\ tx_pc = "idle"
    /\ tx_raw = None
    /\ tx_severity = <<>>
    /\ tx_clean = None
    /\ tx_out = None

\* no quality check has run
QualityIdleInit == q_data = <<>> /\ q_results = <<>>

\* ensure_partitions_for_range has not been called
PartitionIdleInit == partitions = {} /\ part_call = None

\* execute_query has not been called
QueryIdleInit ==
    /\ eq_pc = "idle"
    /\ eq_max_retries = 3
    /\ eq_kind = "select"
    /\ eq_attempt = 0
    /\ eq_attempts = 0
    /\ eq_wait = 0
    /\ eq_result = None

\* DimensionLookupCache(): the three namespaces empty
LookupCacheIdleInit ==
    /\ lc_size = 10000
    /\ lc_caches = [n \in {"customer", "product", "date"} |-> <<>>]
    /\ lc_last = None
    /\ lc_calls = 0

\* no extraction stage is followed checkpoint by checkpoint
CheckpointIdleInit ==
    /\ ck_pc = "idle"
    /\ ck_batch_size = 1000
    /\ ck_interval = 5000
    /\ ck_processed = 0
    /\ ck_batch = 0
    /\ ck_saved = <<>>

\* no batch is being folded
FoldIdleInit == pf_rows = <<>> /\ pf_attrs = None

\* no customer has been looked up call after call
ScdIdleInit == scd_last = None /\ scd_calls = 0

\* ETLScheduler(): no loop thread, nothing scheduled is due
SchedulerIdleInit ==
    /\ sch_is_running = FALSE
    /\ sch_stop_event = FALSE
    /\ sch_thread = 0
    /\ sch_threads = <<>>
    /\ sch_caller = "idle"
    /\ sch_pending = {}
    /\ sch_due = 0
    /\ sch_starts = <<>>
    /\ sch_late_start = FALSE

\* no job has been created
JobsIdleInit ==
    /\ jm_file = <<>>
    /\ jm_meta = <<>>
    /\ jm_refs = <<>>
    /\ jm_schedule = {}
    /\ jm_last = <<>>
    /\ jm_calls = 0

ServiceIdleInit ==
    /\ QueryIdleInit
    /\ LookupCacheIdleInit
    /\ CheckpointIdleInit
    /\ FoldIdleInit
    /\ ScdIdleInit
    /\ SchedulerIdleInit
    /\ JobsIdleInit

UnitIdleInit == TransformIdleInit /\ QualityIdleInit /\ PartitionIdleInit /\ ServiceIdleInit

\* no resolver is running
LookupIdleInit ==
    /\ lk_impl = "transformer"
    /\ lk_country = [r \in Runs |-> "United Kingdom"]
    /\ lk_index = "partial"
    /\ lk_pc = [r \in Runs |-> "start"]
    /\ lk_seen = [r \in Runs |-> 0]
    /\ lk_key = [r \in Runs |-> 0]

\* the state change of one clean_record(record) call
CleanerStep(record) == SetCleaner(CleanerApply(CleanerState, record).cs)

CleanRecord ==
    /\ total_processed < MaxRecords
    /\ \E record \in RawRecords : CleanerStep(record)
    /\ UNCHANGED CleanerIdle

InitCleaner ==
    /\ CleanerInit /\ WarehouseInit /\ CacheInit /\ PipelineInit /\ batch_size = 1
    /\ RunsInit /\ LookupIdleInit /\ LoaderIdleInit /\ UnitIdleInit
NextCleaner == CleanRecord
SpecCleaner == InitCleaner /\ [][NextCleaner]_vars

(***************************************************************************)
(* Specification of one pipeline run under the orchestrator, with          *)
(* cancel_job called at any time from another thread.                      *)
(***************************************************************************)
InitPipeline ==
    /\ CleanerInit /\ WarehouseInit /\ CacheInit /\ PipelineInit
    /\ RunsInit /\ LookupIdleInit /\ LoaderIdleInit /\ UnitIdleInit
NextPipeline ==
    \/ StartRun
    \/ ConstructFailed
    \/ ExtractRecord
    \/ FinishExtract
    \/ SourceError
    \/ FinishJob
    \/ CancelJob
SpecPipeline == InitPipeline /\ [][NextPipeline]_vars

(***************************************************************************)
(* Specification of several pipeline runs interleaved against one          *)
(* warehouse: for each run, execute creates the version row, loads its     *)
(* batches and tags the data.                                              *)
(***************************************************************************)
\* the cleaned records the runs load
VersionedRecords == {StatelessResult(R_sale), StatelessResult(R_sale_line2)}

\* _create_version_for_job of run r: the version row is inserted, or the
\* insert fails and execute goes on with version_id = None
CreateVersion(r) ==
    /\ run_pc[r] = "created"
    /\ \E version_ok \in BOOLEAN :
          /\ data_versions' =
                 IF version_ok
                 THEN Append(data_versions,
                             [version_id |-> Len(data_versions) + 1, records_count |-> 0])
                 ELSE data_versions
          /\ run_version' =
                 [run_version EXCEPT ![r] = IF version_ok THEN Len(data_versions) + 1 ELSE 0]
    /\ run_pc' = [run_pc EXCEPT ![r] = "loading"]
    /\ UNCHANGED <<RunsIdle, dwVars, run_batches>>

\* the rows and dimension tables after the transformation and load of a batch
\* of one cleaned record
LoadedBatch(tr, r) ==
    /\ dim_customer' = tr.ts.dim_customer
    /\ dim_product' = tr.ts.dim_product
    /\ dim_date' = tr.ts.dim_date
    /\ fact_sales' = fact_sales \o FactRows(<<tr.rec>>)
    /\ run_batches' = [run_batches EXCEPT ![r] = @ + 1]

\* _process_batch of run r on a batch of one record: transformation (the run
\* starts with an empty lookup cache) and _load_batch_to_warehouse
LoadBatch(r) ==
    /\ run_pc[r] = "loading"
    /\ run_batches[r] < MaxBatchesPerRun
    /\ \E record \in VersionedRecords :
          LoadedBatch(transform_record(
                          [TransformerState EXCEPT !.cache_customer = EmptyDict,
                                                   !.cache_product = EmptyDict,
                                                   !.cache_date = {}],
                          record, BatchIdOf(r)), r)
    /\ UNCHANGED <<RunsIdle, data_versions, run_pc, run_version>>

\* the end of execute of run r: if version_id: _tag_data_with_version and
\* _update_version_record_count
TagData(r) ==
    /\ run_pc[r] = "loading"
    /\ IF run_version[r] /= 0
       THEN /\ fact_sales' = tag_fact_sales(fact_sales, run_version[r])
            /\ dim_customer' = tag_dim_customer(dim_customer, run_version[r])
            /\ dim_product' = tag_dim_product(dim_product, run_version[r])
            /\ data_versions' =
                   update_version_record_count(
                       data_versions, tag_fact_sales(fact_sales, run_version[r]),
                       run_version[r])
            /\ UNCHANGED dim_date
       ELSE UNCHANGED <<dwVars, data_versions>>
    /\ run_pc' = [run_pc EXCEPT ![r] = "done"]
    /\ UNCHANGED <<RunsIdle, run_version, run_batches>>

InitRuns ==
    /\ CleanerInit /\ WarehouseInit /\ CacheInit /\ PipelineInit /\ batch_size = 1
    /\ RunsInit /\ LookupIdleInit /\ LoaderIdleInit /\ UnitIdleInit
NextRuns ==
    \E r \in Runs :
        \/ CreateVersion(r)
        \/ LoadBatch(r)
        \/ TagData(r)
SpecRuns == InitRuns /\ [][NextRuns]_vars

(***************************************************************************)
(* Two runs resolving the same customer_id against one warehouse.  Each    *)
(* run is a process of its own with an empty lookup cache, so the cache    *)
(* check misses; the query and the insert of a resolution are separate     *)
(* statements, and statements of the two runs interleave.                  *)
(***************************************************************************)
RacedCustomer == "17850"
Countries == {"United Kingdom", "France"}

\* the dim_customer rows of a customer_id, current or closed
CustomerRows(table, cid) == {i \in 1..Len(table) : table[i].customer_id = cid}

\* a unique index rejects the table an INSERT would produce
UniqueViolation(table) ==
    \/ lk_index = "partial" /\ ~idx_dim_customer_one_current(table)
    \/ lk_index = "full"
         /\ \E i, j \in 1..Len(table) :
               i /= j /\ table[i].customer_id = table[j].customer_id

NewCustomerRow(r) ==
    CustomerRow(Len(dim_customer) + 1, RacedCustomer, lk_country[r], TRUE)

Resolved(r, key) ==
    /\ lk_key' = [lk_key EXCEPT ![r] = key]
    /\ lk_pc' = [lk_pc EXCEPT ![r] = "done"]

\* session.add(new); session.commit(): the row is stored and its key returned,
\* or the commit raises and the resolver returns None
InsertCustomer(r, table) ==
    IF UniqueViolation(table)
    THEN /\ Resolved(r, 0)
         /\ UNCHANGED dim_customer
    ELSE /\ Resolved(r, Len(table))
         /\ dim_customer' = table

\* RetailDataTransformer._lookup_customer_key: the query for the current row
LookupRead(r) ==
    /\ lk_impl = "transformer"
    /\ lk_pc[r] = "start"
    /\ \/ /\ CurrentCustomerRows(dim_customer, RacedCustomer) = {}
          /\ lk_seen' = [lk_seen EXCEPT ![r] = 0]
       \/ \E i \in CurrentCustomerRows(dim_customer, RacedCustomer) :
              lk_seen' = [lk_seen EXCEPT ![r] = i]
    /\ lk_pc' = [lk_pc EXCEPT ![r] = "read"]
    /\ UNCHANGED <<LookupIdle, dwVars, lk_impl, lk_country, lk_index, lk_key>>

\* RetailDataTransformer._lookup_customer_key: what follows the query
LookupWrite(r) ==
    /\ lk_impl = "transformer"
    /\ lk_pc[r] = "read"
    /\ IF lk_seen[r] = 0
       THEN InsertCustomer(r, Append(dim_customer, NewCustomerRow(r)))
       ELSE IF dim_customer[lk_seen[r]].country /= lk_country[r]
       THEN InsertCustomer(r, Append([dim_customer EXCEPT ![lk_seen[r]].is_current = FALSE],
                                     NewCustomerRow(r)))
       ELSE /\ Resolved(r, lk_seen[r])
            /\ UNCHANGED dim_customer
    /\ UNCHANGED <<LookupIdle, dim_product, dim_date, fact_sales,
                   lk_impl, lk_country, lk_index, lk_seen>>

\* LoaderService.get_or_create_customer_key when ON CONFLICT (customer_id)
\* matches a unique index: INSERT .. ON CONFLICT DO NOTHING RETURNING, then
\* the query for the existing row when nothing was inserted
LoaderUpsert(r) ==
    /\ lk_impl = "loader"
    /\ lk_index = "full"
    /\ lk_pc[r] = "start"
    /\ IF CustomerRows(dim_customer, RacedCustomer) = {}
       THEN /\ Resolved(r, Len(dim_customer) + 1)
            /\ dim_customer' = Append(dim_customer, NewCustomerRow(r))
       ELSE /\ \E i \in CustomerRows(dim_customer, RacedCustomer) : Resolved(r, i)
            /\ UNCHANGED dim_customer
    /\ UNCHANGED <<LookupIdle, dim_product, dim_date, fact_sales,
                   lk_impl, lk_country, lk_index, lk_seen>>

\* LoaderService.get_or_create_customer_key when the ON CONFLICT target matches
\* no unique index: the INSERT raises ProgrammingError, the handler rolls back
\* and queries the first row of the customer_id
LoaderFallbackRead(r) ==
    /\ lk_impl = "loader"
    /\ lk_index /= "full"
    /\ lk_pc[r] = "start"
    /\ \/ /\ CustomerRows(dim_customer, RacedCustomer) = {}
          /\ lk_seen' = [lk_seen EXCEPT ![r] = 0]
       \/ \E i \in CustomerRows(dim_customer, RacedCustomer) :
              lk_seen' = [lk_seen EXCEPT ![r] = i]
    /\ lk_pc' = [lk_pc EXCEPT ![r] = "read"]
    /\ UNCHANGED <<LookupIdle, dwVars, lk_impl, lk_country, lk_index, lk_key>>

\* the handler's insert when its query found no row
LoaderFallbackWrite(r) ==
    /\ lk_impl = "loader"
    /\ lk_index /= "full"
    /\ lk_pc[r] = "read"
    /\ IF lk_seen[r] = 0
       THEN InsertCustomer(r, Append(dim_customer, NewCustomerRow(r)))
       ELSE /\ Resolved(r, lk_seen[r])
            /\ UNCHANGED dim_customer
    /\ UNCHANGED <<LookupIdle, dim_product, dim_date, fact_sales,
                   lk_impl, lk_country, lk_index, lk_seen>>

\* the warehouse before the two runs: the customer unknown, known, or known
\* with a closed row of an earlier country
CustomerHistories ==
    { <<>>,
      <<CustomerRow(1, RacedCustomer, "United Kingdom", TRUE)>>,
      <<CustomerRow(1, RacedCustomer, "France", FALSE),
        CustomerRow(2, RacedCustomer, "United Kingdom", TRUE)>> }

InitCustomer ==
    /\ CleanerInit /\ CacheInit /\ PipelineInit /\ batch_size = 1 /\ RunsInit
    /\ LoaderIdleInit /\ UnitIdleInit
    /\ dim_product = <<>> /\ dim_date = {} /\ fact_sales = <<>>
    /\ data_versions = <<>>
    /\ lk_impl \in {"transformer", "loader"}
    /\ lk_index \in {"none", "partial", "full"}
    \* SchemaManager._create_additional_constraints creates the partial index
    /\ lk_impl = "transformer" => lk_index = "partial"
    /\ dim_customer \in CustomerHistories
    /\ ~UniqueViolation(dim_customer)
    /\ lk_country \in [Runs -> Countries]
    /\ lk_pc = [r \in Runs |-> "start"]
    /\ lk_seen = [r \in Runs |-> 0]
    /\ lk_key = [r \in Runs |-> 0]
NextCustomer ==
    \E r \in Runs :
        \/ LookupRead(r)
        \/ LookupWrite(r)
        \/ LoaderUpsert(r)
        \/ LoaderFallbackRead(r)
        \/ LoaderFallbackWrite(r)
SpecCustomer == InitCustomer /\ [][NextCustomer]_vars

(***************************************************************************)
(* RetailDataTransformer of app/retail_data_platform/etl/transformation.py *)
(* (no database access) and LoaderService of etl/loader.py, which resolves *)
(* the dimension keys and stores the fact rows.  "" stands for a None      *)
(* category, 0 for a None key or date.                                     *)
(***************************************************************************)
\* sc.startswith("GIFT_")
StartsWithGift(sc) == sc \in {"GIFT_0001_20"}

\* sc.startswith("DCGS")
StartsWithDCGS(sc) == sc \in {"DCGSSBOY", "DCGSSGIRL", "DCGS0003"}

\* word in text.upper(), for the words POSTAGE, SHIPPING and DISCOUNT
Mentions(text, word) ==
    CASE word = "POSTAGE"  -> text \in {"POSTAGE", "Postage"}
      [] word = "SHIPPING" -> text \in {"NEXT DAY SHIPPING", "Next Day Shipping"}
      [] word = "DISCOUNT" -> text \in {"Discount", "Manual Discount"}
      [] OTHER             -> FALSE

Category(cat, sub, gift) == [category |-> cat, subcategory |-> sub, is_gift |-> gift]

\* RetailDataTransformer._categorize_stock_code; the pound sign of the voucher
\* subcategory is written GBP
categorize_stock_code(stock_code, description) ==
    LET sc == Strip(Upper(stock_code)) IN
    CASE sc = "AMAZONFEE"   -> Category("Fees", "Marketplace Fee", FALSE)
      [] sc = "BANKCHARGES" -> Category("Fees", "Bank Charge", FALSE)
      [] sc = "POST"        -> Category("Shipping", "Postage", FALSE)
      [] sc = "DOT"         -> Category("Adjustment", "Rounding", FALSE)
      [] sc = "D"           -> Category("Discount", "Manual Discount", FALSE)
      [] sc = "M"           -> Category("Adjustment", "Manual", FALSE)
      [] sc = "S"           -> Category("Services", "Service Charge", FALSE)
      [] sc = "CRUK"        -> Category("Charity", "Donation", FALSE)
      [] sc = "PADS"        -> Category("Stationery", "Pads", FALSE)
      [] sc = "C2"          -> Category("Shipping", "Carrier Surcharge", FALSE)
      [] OTHER ->
          IF StartsWithGift(sc) THEN Category("Gift Voucher", "Voucher GBP20", TRUE)
          ELSE IF sc = "DCGSSBOY" THEN Category("Gift Sets", "Boy", TRUE)
          ELSE IF sc = "DCGSSGIRL" THEN Category("Gift Sets", "Girl", TRUE)
          ELSE IF StartsWithDCGS(sc) THEN Category("Gift Sets", "DCGS", TRUE)
          ELSE IF Mentions(description, "POSTAGE") \/ Mentions(description, "SHIPPING")
               THEN Category("Shipping", "Postage", FALSE)
          ELSE IF Mentions(description, "DISCOUNT")
               THEN Category("Discount", "Promotion", FALSE)
          ELSE Category("Merchandise", "General", FALSE)

\* RetailDataTransformer._classify_transaction, "Priority 1" down to the
\* Services rule: the type of an operational record, "" when none of these
\* rules applies
classify_operational(sc, qty, is_credit_invoice, category, subcategory, line_total) ==
    IF sc \in {"AMAZONFEE", "BANKCHARGES"} \/ category = "Fees" THEN "FEE"
    ELSE IF sc \in {"POST", "C2"} \/ category = "Shipping" THEN "SHIPPING"
    ELSE IF sc \in {"D"} \/ category = "Discount" \/ Mentions(subcategory, "DISCOUNT")
         THEN "DISCOUNT"
    ELSE IF sc \in {"CRUK"} \/ category = "Charity" THEN "DONATION"
    ELSE IF sc \in {"DOT", "M", "S"} \/ category = "Adjustment" THEN "ADJUSTMENT"
    ELSE IF category = "Gift Voucher"
         THEN (IF line_total < 0 \/ qty < 0 \/ is_credit_invoice
               THEN "VOUCHER_REDEMPTION" ELSE "VOUCHER_SALE")
    ELSE IF category = "Services" THEN "SERVICE"
    ELSE ""

\* RetailDataTransformer._classify_transaction, the merchandise rules and the
\* fallbacks
classify_merchandise(sc, qty, is_credit_invoice, category) ==
    IF is_credit_invoice /\ qty <= 0 THEN "RETURN"
    ELSE IF StartsWithDCGS(sc) \/ category \in {"Gift Sets", "Stationery", "Merchandise"}
         THEN (IF ~is_credit_invoice /\ qty < 0 THEN "ADJUSTMENT" ELSE "SALE")
    ELSE IF qty < 0 THEN "ADJUSTMENT"
    ELSE "SALE"

\* a classifier that takes every negative quantity for a return
classify_transaction_by_sign(stock_code, qty, invoice_raw, category, subcategory, line_total) ==
    LET operational == classify_operational(Upper(stock_code), qty,
                           StartsWithC(Upper(invoice_raw)), category, subcategory,
                           line_total)
    IN IF operational /= "" THEN operational
       ELSE IF qty < 0 THEN "RETURN" ELSE "SALE"

\* a classifier that applies the return rule before the operational codes
classify_transaction_return_first(stock_code, qty, invoice_raw, category, subcategory, line_total) ==
    LET is_credit_invoice == StartsWithC(Upper(invoice_raw))
        operational == classify_operational(Upper(stock_code), qty, is_credit_invoice,
                           category, subcategory, line_total)
    IN IF is_credit_invoice /\ qty <= 0 THEN "RETURN"
       ELSE IF operational /= "" THEN operational
       ELSE classify_merchandise(Upper(stock_code), qty, is_credit_invoice, category)

\* RetailDataTransformer._classify_transaction (unit_price is not read)
classify_transaction(stock_code, qty, invoice_raw, category, subcategory, line_total) ==
    LET sc == Upper(stock_code)
        is_credit_invoice == StartsWithC(Upper(invoice_raw))
        operational == classify_operational(sc, qty, is_credit_invoice, category,
                                            subcategory, line_total)
    IN IF operational /= "" THEN operational
       ELSE classify_merchandise(sc, qty, is_credit_invoice, category)

\* RetailDataTransformer.transform on a cleaned record
app_transform(record, ingestion_batch_id) ==
    LET invoice_str == Strip(record.InvoiceNo)
        is_return == StartsWithC(invoice_str)
        invoice_no == ParseInvoiceInt(IF is_return THEN DropFirst(invoice_str)
                                      ELSE invoice_str)
        qty == record.Quantity
        line_total == record.Quantity * record.UnitPrice
        stock_code == Strip(record.StockCode)
        cat == categorize_stock_code(stock_code, record.Description)
    IN
    [invoice_no |-> invoice_no,
     invoice_raw |-> invoice_str,
     transaction_type |-> classify_transaction(stock_code, qty, invoice_str,
                                               cat.category, cat.subcategory,
                                               line_total),
     quantity |-> qty,
     unit_price |-> record.UnitPrice,
     line_total |-> line_total,
     transaction_date |-> record.InvoiceDate,
     customer_id |-> IF record.CustomerID = "" THEN "GUEST" ELSE Strip(record.CustomerID),
     stock_code |-> stock_code,
     description |-> record.Description,
     country |-> record.Country,
     batch_id |-> ingestion_batch_id,
     category |-> cat.category,
     subcategory |-> cat.subcategory,
     is_gift |-> cat.is_gift]

\* app/retail_data_platform/database/models.py: TransactionType
TransactionType == {"SALE", "RETURN"}

\* FactSales of the app models: NOT NULL keys, chk_quantity_positive,
\* chk_unit_price_non_negative, and the transactiontype enum
AppFactConstraintsHold(row) ==
    /\ row.date_key /= 0 /\ row.customer_key /= 0 /\ row.product_key /= 0
    /\ row.quantity > 0
    /\ row.unit_price >= 0
    /\ row.transaction_type \in TransactionType

\* FactSales(...) as load_fact_rows and _fallback_load build it
AppFact(r, date_key, customer_key, product_key) ==
    [date_key |-> date_key, customer_key |-> customer_key, product_key |-> product_key,
     invoice_no |-> r.invoice_no, transaction_type |-> r.transaction_type,
     quantity |-> r.quantity, unit_price |-> r.unit_price, line_total |-> r.line_total,
     batch_id |-> r.batch_id, version_id |-> 0]

\* LoaderService.get_or_create_product_key: INSERT .. ON CONFLICT (stock_code)
\* DO UPDATE .. RETURNING product_key
get_or_create_product_key(ls, stock_code, description, category, subcategory, is_gift) ==
    LET stock == Strip(stock_code)
        rows == ProductRows(ls.dim_product, stock)
        new_key == Len(ls.dim_product) + 1
    IN
    IF stock = "" THEN [ls |-> ls, key |-> 0]
    ELSE IF stock \in DOMAIN ls.cache_product
    THEN [ls |-> ls, key |-> ls.cache_product[stock]]
    ELSE IF rows /= {}
    THEN LET i == CHOOSE x \in rows : TRUE IN
         [ls |-> [ls EXCEPT
                    !.dim_product = [ls.dim_product EXCEPT
                                       ![i].description = description,
                                       ![i].category = category,
                                       ![i].subcategory = subcategory,
                                       ![i].is_gift = is_gift],
                    !.cache_product = Put(ls.cache_product, stock, i)],
          key |-> i]
    ELSE [ls |-> [ls EXCEPT
                    !.dim_product = Append(ls.dim_product,
                                           ProductRow(new_key, stock, description,
                                                      category, subcategory, is_gift)),
                    !.cache_product = Put(ls.cache_product, stock, new_key)],
          key |-> new_key]

\* a customer_id of None, which no raw CustomerID text equals
NoCustomerId == "<None>"

\* the cid of get_or_create_customer_key: str(customer_id or "").strip() or "GUEST"
CustomerIdOrGuest(customer_id) ==
    IF customer_id = NoCustomerId \/ Strip(customer_id) = "" THEN "GUEST"
    ELSE Strip(customer_id)

\* str(r.get("customer_id") or "GUEST") of load_fact_rows
CustomerIdOfRow(r) ==
    IF r.customer_id = NoCustomerId \/ r.customer_id = "" THEN "GUEST" ELSE r.customer_id

\* a resolver that inserts a dim_customer row whenever the cache misses
get_or_create_customer_key_always_insert(ls, customer_id, country) ==
    LET cid == CustomerIdOrGuest(customer_id)
        cache_key == cid \o "|" \o country
        new_key == Len(ls.dim_customer) + 1
    IN
    IF cache_key \in DOMAIN ls.cache_customer
    THEN [ls |-> ls, key |-> ls.cache_customer[cache_key]]
    ELSE [ls |-> [ls EXCEPT
                    !.dim_customer = Append(ls.dim_customer,
                                            CustomerRow(new_key, cid, country, TRUE)),
                    !.cache_customer = Put(ls.cache_customer, cache_key, new_key)],
          key |-> new_key]

\* LoaderService.get_or_create_customer_key, run without interruption: with a
\* unique index on customer_id the INSERT .. ON CONFLICT DO NOTHING returns the
\* new key or nothing and the existing row is queried; without one the
\* ProgrammingError handler queries the existing row and inserts when there
\* is none
get_or_create_customer_key(ls, customer_id, country) ==
    LET cid == CustomerIdOrGuest(customer_id)
        cache_key == cid \o "|" \o country
        rows == CustomerRows(ls.dim_customer, cid)
        new_key == Len(ls.dim_customer) + 1
    IN
    IF cache_key \in DOMAIN ls.cache_customer
    THEN [ls |-> ls, key |-> ls.cache_customer[cache_key]]
    ELSE IF rows /= {}
    THEN LET i == CHOOSE x \in rows : \A y \in rows : x <= y IN
         [ls |-> [ls EXCEPT !.cache_customer = Put(ls.cache_customer, cache_key, i)],
          key |-> i]
    ELSE [ls |-> [ls EXCEPT
                    !.dim_customer = Append(ls.dim_customer,
                                            CustomerRow(new_key, cid,
                                                        IF country = "" THEN "Unknown"
                                                        ELSE country, TRUE)),
                    !.cache_customer = Put(ls.cache_customer, cache_key, new_key)],
          key |-> new_key]

\* LoaderService.get_or_create_date_key
get_or_create_date_key(ls, date_value) ==
    IF date_value = 0 THEN [ls |-> ls, key |-> 0]
    ELSE [ls |-> [ls EXCEPT !.dim_date = ls.dim_date \cup {date_value},
                            !.cache_date = ls.cache_date \cup {date_value}],
          key |-> date_value]

\* the loader's view of the warehouse and of its cache
LoaderState ==
    [dim_customer |-> dim_customer, dim_product |-> dim_product, dim_date |-> dim_date,
     cache_customer |-> cache_customer, cache_product |-> cache_product,
     cache_date |-> cache_date]

\* session.commit() of fact objects (each [idx, fact])
AppCommitSucceeds(objs, db_ok) ==
    db_ok /\ \A i \in 1..Len(objs) : AppFactConstraintsHold(objs[i].fact)

FactsOf(objs) == [i \in 1..Len(objs) |-> objs[i].fact]
IndexesOf(objs) == {objs[i].idx : i \in 1..Len(objs)}

\* _fallback_load, one row: the keys p, c, d resolved for row r at position i
FallbackRowResolved(acc, r, i, p, c, d) ==
    [ls |-> d.ls,
     objs |-> IF d.key = 0 \/ p.key = 0 \/ c.key = 0
              THEN acc.objs
              ELSE Append(acc.objs, [idx |-> i, fact |-> AppFact(r, d.key, c.key, p.key)])]

FallbackCustomer(acc, r, i, p, c) ==
    FallbackRowResolved(acc, r, i, p, c, get_or_create_date_key(c.ls, r.transaction_date))

FallbackProduct(acc, r, i, p) ==
    FallbackCustomer(acc, r, i, p, get_or_create_customer_key(p.ls, r.customer_id, r.country))

FallbackRow(acc, r, i) ==
    FallbackProduct(acc, r, i,
                    get_or_create_product_key(acc.ls, r.stock_code, r.description,
                                              r.category, r.subcategory, r.is_gift))

\* _fallback_load: what the commit of the fact objects leaves
FallbackCommitted(acc, facts, db_ok) ==
    IF acc.objs /= <<>> /\ AppCommitSucceeds(acc.objs, db_ok)
    THEN [ls |-> acc.ls, facts |-> facts \o FactsOf(acc.objs),
          inserted |-> Len(acc.objs), rejected |-> 0,
          persisted |-> IndexesOf(acc.objs), stored |-> acc.objs, path |-> "fallback",
          built |-> acc.objs]
    ELSE [ls |-> acc.ls, facts |-> facts,
          inserted |-> 0, rejected |-> 0, persisted |-> {}, stored |-> <<>>,
          path |-> "fallback", built |-> acc.objs]

\* LoaderService._fallback_load
fallback_load(ls, facts, rows, db_ok) ==
    LET resolve[i \in 0..Len(rows)] ==
            IF i = 0 THEN [ls |-> ls, objs |-> <<>>]
            ELSE FallbackRow(resolve[i - 1], rows[i], i)
    IN FallbackCommitted(resolve[Len(rows)], facts, db_ok)

\* list(set): the elements of S in one of the orders a set iterates in
ListOfSet(S, rev) ==
    LET n == Cardinality(S)
        f == CHOOSE g \in [1..n -> S] : \A x \in S : \E i \in 1..n : g[i] = x
    IN IF rev THEN [i \in 1..n |-> f[n + 1 - i]] ELSE f

\* prod_attrs[sc] of load_fact_rows: the attributes of a stock code folded
\* over the rows of the batch
prod_attrs(rows, sc) ==
    LET fold[i \in 0..Len(rows)] ==
            IF i = 0
            THEN [description |-> "", category |-> "", subcategory |-> "", is_gift |-> FALSE]
            ELSE IF rows[i].stock_code /= sc THEN fold[i - 1]
            ELSE [description |-> IF Len(Strip(rows[i].description))
                                       > Len(fold[i - 1].description)
                                  THEN Strip(rows[i].description)
                                  ELSE fold[i - 1].description,
                  category |-> IF rows[i].category /= "" THEN rows[i].category
                               ELSE fold[i - 1].category,
                  subcategory |-> IF rows[i].subcategory /= "" THEN rows[i].subcategory
                                  ELSE fold[i - 1].subcategory,
                  is_gift |-> fold[i - 1].is_gift \/ rows[i].is_gift]
    IN fold[Len(rows)]

\* step 3 of load_fact_rows: the missing dimension rows inserted in bulk
BulkInsertDims(ls, rows, customers, products, dates) ==
    [ls EXCEPT
       !.dim_customer =
           ls.dim_customer \o
           [i \in 1..Len(customers) |->
               CustomerRow(Len(ls.dim_customer) + i, customers[i], "Unknown", TRUE)],
       !.dim_product =
           ls.dim_product \o
           [i \in 1..Len(products) |->
               ProductRow(Len(ls.dim_product) + i, products[i],
                          prod_attrs(rows, products[i]).description,
                          prod_attrs(rows, products[i]).category,
                          prod_attrs(rows, products[i]).subcategory,
                          prod_attrs(rows, products[i]).is_gift)],
       !.dim_date = ls.dim_date \cup dates]

\* the key a map built from a query holds for a natural key (0: no entry)
MapGet(keys) == IF keys = {} THEN 0 ELSE CHOOSE k \in keys : TRUE

\* step 5 of load_fact_rows: the fact objects, and the rows rejected for a
\* missing product or date key
BuildFactObjects(ls, rows) ==
    LET build[i \in 0..Len(rows)] ==
            IF i = 0 THEN [objs |-> <<>>, rejected |-> 0]
            ELSE LET r == rows[i]
                     prod_key == MapGet(ProductRows(ls.dim_product, r.stock_code))
                     \* customer_map holds the customer_ids of the batch only
                     cust_key == IF \E n \in 1..Len(rows) :
                                       /\ rows[n].customer_id /= NoCustomerId
                                       /\ CustomerIdOfRow(rows[n]) = CustomerIdOfRow(r)
                                 THEN MapGet(CustomerRows(ls.dim_customer,
                                                          CustomerIdOfRow(r)))
                                 ELSE 0
                     date_key == IF r.transaction_date \in ls.dim_date
                                 THEN r.transaction_date ELSE 0
                 IN IF prod_key = 0 \/ date_key = 0
                    THEN [build[i - 1] EXCEPT !.rejected = @ + 1]
                    ELSE [build[i - 1] EXCEPT
                            !.objs = Append(@, [idx |-> i,
                                                fact |-> AppFact(r, date_key, cust_key,
                                                                 prod_key)])]
    IN build[Len(rows)]

\* the fact objects a per-row add and commit stores after the bulk commit failed
StoredOneByOne(objs, db_ok) ==
    SelectSeq(objs, LAMBDA o : db_ok /\ AppFactConstraintsHold(o.fact))

\* the end of load_fact_rows: add_all and commit, or one commit per fact
BulkCommitted(ls, facts, built, objs_stored) ==
    [ls |-> ls, facts |-> facts \o FactsOf(objs_stored),
     inserted |-> Len(objs_stored), rejected |-> built.rejected,
     persisted |-> IndexesOf(objs_stored), stored |-> objs_stored, path |-> "bulk",
     built |-> built.objs]

BulkFacts(ls, facts, built, db_ok) ==
    BulkCommitted(ls, facts, built,
                  IF AppCommitSucceeds(built.objs, db_ok) THEN built.objs
                  ELSE StoredOneByOne(built.objs, db_ok))

\* steps 4 and 5 of load_fact_rows, on the dimensions ls2 the bulk insert left
BulkLoaded(ls2, facts, rows, db_ok) ==
    BulkFacts(ls2, facts, BuildFactObjects(ls2, rows), db_ok)

\* LoaderService.load_fact_rows on a non-empty batch.  dims_ok: the bulk
\* dimension statements and their commit meet no database error other than
\* the ON CONFLICT (customer_id) target matching no unique index
load_fact_rows(ls, facts, rows, dims_ok, db_ok, rev) ==
    LET all == {rows[i] : i \in 1..Len(rows)}
        customer_ids == {CustomerIdOfRow(r) : r \in {x \in all : x.customer_id /= NoCustomerId}}
        stock_codes == {r.stock_code : r \in {x \in all : x.stock_code /= ""}}
        dates == {r.transaction_date : r \in {x \in all : x.transaction_date /= 0}}
        missing_customers ==
            {cid \in customer_ids : CurrentCustomerRows(ls.dim_customer, cid) = {}}
        missing_products == {sc \in stock_codes : ProductRows(ls.dim_product, sc) = {}}
    IN
    IF ~dims_ok \/ (missing_customers /= {} /\ lk_index /= "full")
    THEN fallback_load(ls, facts, rows, db_ok)
    ELSE BulkLoaded(BulkInsertDims(ls, rows,
                                   ListOfSet({cid \in missing_customers :
                                                 CustomerRows(ls.dim_customer, cid) = {}},
                                             rev),
                                   ListOfSet(missing_products, rev), dates),
                    facts, rows, db_ok)

(***************************************************************************)
(* Specification of a loader that is handed one batch after another.       *)
(***************************************************************************)
\* a stock code sold under a second description
R_relabel == Raw("536367", "85123A", "CREAM CUPID HEARTS", "1",
                 "2010-12-01 08:26:00", "3.50", "17850", "United Kingdom")

\* a transformed row offered to the loader, with the raw record it came from
Offer(raw) == [row |-> app_transform(StatelessResult(raw), "job1"), raw |-> raw]

\* a row handed to the loader without a stock code
OfferWithoutStockCode ==
    [row |-> [app_transform(StatelessResult(R_sale_line2), "job1") EXCEPT !.stock_code = ""],
     raw |-> R_sale_line2]

\* a row handed to the loader with customer_id None
OfferWithoutCustomer ==
    [row |-> [app_transform(StatelessResult(R_sale_line2), "job1")
                  EXCEPT !.customer_id = NoCustomerId],
     raw |-> R_sale_line2]

LoaderBatches ==
    { <<Offer(R_sale)>>,
      <<Offer(R_sale), Offer(R_return)>>,
      <<Offer(R_sale), Offer(R_sale_line2)>>,
      <<Offer(R_relabel)>>,
      <<OfferWithoutStockCode, Offer(R_sale_line2)>>,
      <<OfferWithoutCustomer, Offer(R_sale)>>,
      <<Offer(R_fee)>> }

RowsOf(b) == [i \in 1..Len(b) |-> b[i].row]

\* the state a load_fact_rows call with result res leaves.  part_ok: the
\* schema_manager.ensure_partitions_for_range call made before the facts are
\* added returned; when it raises, both load paths catch the exception (the
\* bulk path logs a warning, the fallback path passes) and go on to the commit
Loaded(res, b, db_ok, part_ok) ==
    /\ dim_customer' = res.ls.dim_customer
    /\ dim_product' = res.ls.dim_product
    /\ dim_date' = res.ls.dim_date
    /\ cache_customer' = res.ls.cache_customer
    /\ cache_product' = res.ls.cache_product
    /\ cache_date' = res.ls.cache_date
    /\ fact_sales' = res.facts
    /\ load_log' = Append(load_log,
                          [offered |-> b, inserted |-> res.inserted,
                           rejected |-> res.rejected, persisted |-> res.persisted,
                           stored |-> res.stored, path |-> res.path, db_ok |-> db_ok,
                           built |-> res.built, part_ok |-> part_ok])

LoadFactRows ==
    /\ Len(load_log) < MaxLoads
    /\ \E b \in LoaderBatches : \E dims_ok, db_ok, rev, part_ok \in BOOLEAN :
           Loaded(load_fact_rows(LoaderState, fact_sales, RowsOf(b), dims_ok, db_ok, rev),
                  b, db_ok, part_ok)
    /\ UNCHANGED LoaderIdle

\* QueryCache entries expire after default_ttl seconds
CacheExpire ==
    /\ cache_customer /= EmptyDict \/ cache_product /= EmptyDict \/ cache_date /= {}
    /\ ClearCache
    /\ UNCHANGED <<LoaderIdle, dwVars, loadVars>>

InitLoader ==
    /\ CleanerInit /\ WarehouseInit /\ CacheInit /\ PipelineInit /\ batch_size = 1
    /\ RunsInit /\ LoaderIdleInit /\ UnitIdleInit
    /\ lk_impl = "loader"
    /\ lk_index \in {"none", "partial", "full"}
    /\ lk_country = [r \in Runs |-> "United Kingdom"]
    /\ lk_pc = [r \in Runs |-> "start"]
    /\ lk_seen = [r \in Runs |-> 0]
    /\ lk_key = [r \in Runs |-> 0]
NextLoader ==
    \/ LoadFactRows
    \/ CacheExpire
SpecLoader == InitLoader /\ [][NextLoader]_vars

(***************************************************************************)
(* Properties of the cleaner                                               *)
(***************************************************************************)
\* the (InvoiceNo, StockCode) pair of a record after the cleaning rules
KeyPair(r) == <<clean_invoice_number(r.InvoiceNo), clean_stock_code(r.StockCode)>>

LogIdx == 1..Len(clean_log)
Accepted(i) == clean_log[i].result /= None

\* the key pairs of the records accepted before call i
AcceptedKeysBefore(i) ==
    {KeyPair(clean_log[j].rec) : j \in {k \in LogIdx : k < i /\ Accepted(k)}}

C9_OutcomeIndependentOfHistory ==
    \A i, j \in LogIdx :
        clean_log[i].rec = clean_log[j].rec
            => /\ clean_log[i].result = clean_log[j].result
               /\ clean_log[i].reason = clean_log[j].reason

\* C9 (amended): the outcome of clean_record(r) depends on the history only
\* through the keys of the records accepted before it: when r's cleaned key is
\* not among them the outcome is that of the stateless rules (the same cleaned
\* record, or the same missing-value or validation rejection), and when it is,
\* a record that passes the rules is rejected as a duplicate.
C9_OutcomeDependsOnAcceptedKeysOnly ==
    /\ \A i \in LogIdx :
          LET r == clean_log[i].rec IN
          IF PassesRules(r) /\ KeyPair(r) \in AcceptedKeysBefore(i)
          THEN clean_log[i].result = None /\ clean_log[i].reason = "duplicate"
          ELSE /\ clean_log[i].result = StatelessResult(r)
               /\ clean_log[i].reason = StatelessReason(r)
    /\ \A i, j \in LogIdx :
          LET r == clean_log[i].rec IN
          (/\ r = clean_log[j].rec
           /\ KeyPair(r) \notin AcceptedKeysBefore(i)
           /\ KeyPair(r) \notin AcceptedKeysBefore(j))
              => /\ clean_log[i].result = clean_log[j].result
                 /\ clean_log[i].reason = clean_log[j].reason

\* C9 witness: one raw record cleaned after two different histories, accepted
\* after the one and rejected after the other, and a second record accepted
\* after a non-empty history exactly as the stateless rules clean it.
C9_Witness ==
    \E i, j, k \in LogIdx :
        /\ i < j /\ j < k
        /\ clean_log[i].rec = clean_log[k].rec
        /\ Accepted(i) /\ ~Accepted(k)
        /\ clean_log[j].rec /= clean_log[i].rec
        /\ Accepted(j)
        /\ clean_log[j].result = StatelessResult(clean_log[j].rec)

(***************************************************************************)
(* Properties of a pipeline run                                            *)
(***************************************************************************)
\* ETLPipeline.execute has returned
RunEnded == pc \in {"returned", "done"}

\* C1: when a run ends, records_extracted = records_loaded + records_rejected
\* + the records that failed in cleaning or transformation; no extracted
\* record is unaccounted for.  (Runs the source itself aborted are left out:
\* there extraction_errors exceeds loading_errors.)
C1_EveryRecordAccounted ==
    (RunEnded /\ metrics.extraction_errors = metrics.loading_errors)
        => metrics.records_extracted =
               metrics.records_loaded + metrics.records_rejected
               + metrics.transformation_errors + metrics.cleaning_errors

\* C2: a run ends in one of SUCCESS, FAILED, PARTIAL, CANCELLED; it ends in
\* SUCCESS only if records_rejected = 0, and a run that rejected records while
\* it loaded others ends in PARTIAL, in the metrics and in the lineage row.
C2_StatusReflectsRejections ==
    RunEnded =>
        /\ metrics.status \in {"SUCCESS", "FAILED", "PARTIAL", "CANCELLED"}
        /\ metrics.status = "SUCCESS" => metrics.records_rejected = 0
        /\ (/\ metrics.status \notin {"FAILED", "CANCELLED"}
            /\ metrics.records_rejected > 0
            /\ metrics.records_loaded > 0)
               => /\ metrics.status = "PARTIAL"
                  /\ lineage_status \in {"PARTIAL", ""}

\* C7: once cancel_job has set the flag during the extraction, the run
\* processes no batch beyond the one in progress, and when it has ended its
\* status and its lineage row are not SUCCESS.
C7_CancelObserved ==
    cancelled_at >= 0 =>
        /\ batches_processed <= cancelled_at + 1
        /\ RunEnded => /\ metrics.status \in {"CANCELLED", "FAILED"}
                       /\ lineage_status /= "SUCCESS"

(***************************************************************************)
(* Properties of interleaved runs                                          *)
(***************************************************************************)
AllRunsDone == \A r \in Runs : run_pc[r] = "done"

\* the run whose ingestion manager stamped batch_id b
RunOfBatch(b) == CHOOSE r \in Runs : BatchIdOf(r) = b

\* C5: after interleaved runs have finished, every fact row has a non-null
\* version_id, fact rows with the same batch_id have the same version_id, and
\* a fact row carries the version_id of the run that inserted it.
C5_VersionTagsOwnRows ==
    AllRunsDone =>
        /\ \A i \in 1..Len(fact_sales) : fact_sales[i].version_id /= 0
        /\ \A i, j \in 1..Len(fact_sales) :
              fact_sales[i].batch_id = fact_sales[j].batch_id
                  => fact_sales[i].version_id = fact_sales[j].version_id
        /\ \A i \in 1..Len(fact_sales) :
              fact_sales[i].version_id /= 0
                  => fact_sales[i].version_id = run_version[RunOfBatch(fact_sales[i].batch_id)]

(***************************************************************************)
(* Properties of concurrent customer resolution                            *)
(***************************************************************************)
\* C6: whatever the interleaving of two runs resolving the same customer_id,
\* dim_customer has at most one is_current row per customer_id, and two runs
\* that resolved the customer with the same country got the same, non-null
\* customer_key.
C6_OneCurrentRowOneKey ==
    /\ idx_dim_customer_one_current(dim_customer)
    /\ \A r1, r2 \in Runs :
          (/\ lk_pc[r1] = "done" /\ lk_pc[r2] = "done"
           /\ lk_country[r1] = lk_country[r2])
              => (lk_key[r1] /= 0 /\ lk_key[r1] = lk_key[r2])

(***************************************************************************)
(* Properties of the loader                                                *)
(***************************************************************************)
\* C3: for every batch offered to load_fact_rows, on the bulk path and on the
\* per-row fallback path, the fact rows inserted plus the records counted as
\* rejected are the records offered, and no record is inserted twice.
C3_EveryOfferedRowCounted ==
    \A i \in 1..Len(load_log) :
        /\ load_log[i].inserted + load_log[i].rejected = Len(load_log[i].offered)
        /\ Cardinality(load_log[i].persisted) = load_log[i].inserted

\* the raw Quantity of the k-th record of a logged batch
RawQuantity(entry, k) == ParseQuantity(Strip(entry.offered[k].raw.Quantity))

\* C4: a persisted fact row has quantity = |raw Quantity| and unit_price >= 0,
\* and a record with a negative raw Quantity whose keys resolve is persisted
\* (with that non-negative quantity) when the database accepts commits.
C4_PersistedQuantityAbsolute ==
    \A i \in 1..Len(load_log) : \A k \in 1..Len(load_log[i].offered) :
        /\ k \in load_log[i].persisted
              => /\ load_log[i].offered[k].row.quantity = Abs(RawQuantity(load_log[i], k))
                 /\ load_log[i].offered[k].row.unit_price >= 0
        /\ (load_log[i].db_ok /\ RawQuantity(load_log[i], k) < 0
            /\ load_log[i].offered[k].row.stock_code /= "")
              => k \in load_log[i].persisted

\* every natural key of the batch has a dimension row already
NaturalKeysKnown(b) ==
    \A k \in 1..Len(b) :
        /\ CustomerRows(dim_customer, b[k].row.customer_id) /= {}
        /\ ProductRows(dim_product, b[k].row.stock_code) /= {}
        /\ b[k].row.transaction_date \in dim_date

\* a step keeps every dimension row under its surrogate and natural key
DimKeysStable ==
    /\ Len(dim_customer') >= Len(dim_customer)
    /\ \A i \in 1..Len(dim_customer) :
          /\ dim_customer'[i].customer_key = dim_customer[i].customer_key
          /\ dim_customer'[i].customer_id = dim_customer[i].customer_id
    /\ Len(dim_product') >= Len(dim_product)
    /\ \A i \in 1..Len(dim_product) :
          /\ dim_product'[i].product_key = dim_product[i].product_key
          /\ dim_product'[i].stock_code = dim_product[i].stock_code
    /\ dim_date \subseteq dim_date'

\* no natural key has two dimension rows
OneKeyPerNaturalKey ==
    /\ \A i, j \in 1..Len(dim_customer) :
          dim_customer[i].customer_id = dim_customer[j].customer_id => i = j
    /\ \A i, j \in 1..Len(dim_product) :
          dim_product[i].stock_code = dim_product[j].stock_code => i = j

\* the step is a load of a batch whose natural keys were all known
LoadOfKnownKeys ==
    /\ Len(load_log') = Len(load_log) + 1
    /\ NaturalKeysKnown(load_log'[Len(load_log')].offered)

\* C10 as stated: a natural key keeps the one surrogate key it was given, and
\* loading a batch whose natural keys all exist creates no dimension row and
\* leaves the existing dimension rows unchanged.
C10_DimensionsUntouchedByKnownKeys ==
    [][/\ DimKeysStable
       /\ OneKeyPerNaturalKey'
       /\ LoadOfKnownKeys => /\ dim_customer' = dim_customer
                             /\ dim_product' = dim_product
                             /\ dim_date' = dim_date]_vars

\* C10, amended: a natural key keeps the one surrogate key it was given, and
\* loading a batch whose natural keys all exist creates no dimension row and
\* leaves dim_customer and dim_date unchanged; the other columns of a
\* dim_product row may be overwritten.
C10_KeyMappingStable ==
    [][/\ DimKeysStable
       /\ OneKeyPerNaturalKey'
       /\ LoadOfKnownKeys => /\ dim_customer' = dim_customer
                             /\ Len(dim_product') = Len(dim_product)
                             /\ dim_date' = dim_date]_vars

\* a batch of known natural keys was loaded on the per-row path after the
\* first batch created their rows
C10_Witness ==
    /\ Len(load_log) = 2
    /\ load_log[1].offered = <<Offer(R_sale)>>
    /\ load_log[1].inserted = 1
    /\ load_log[2].offered = <<Offer(R_relabel)>>
    /\ load_log[2].path = "fallback"
    /\ load_log[2].inserted = 1
    /\ Len(dim_customer) = 1 /\ Len(dim_product) = 1

\* the k-th row of a logged batch lacks a product or a date key
LacksProductOrDate(entry, k) ==
    \/ entry.offered[k].row.stock_code = ""
    \/ entry.offered[k].row.transaction_date = 0

\* C11: in load_fact_rows a record whose product_key or date_key cannot be
\* resolved is never inserted and is counted as rejected, and a record whose
\* customer_key cannot be resolved (customer_id None) is still loaded, attached
\* to the GUEST customer, when the database accepts commits.
C11_RejectsProductDateToleratesCustomer ==
    \A i \in 1..Len(load_log) :
        /\ \A k \in 1..Len(load_log[i].offered) :
              LacksProductOrDate(load_log[i], k) => k \notin load_log[i].persisted
        /\ load_log[i].rejected =
              Cardinality({k \in 1..Len(load_log[i].offered) :
                              LacksProductOrDate(load_log[i], k)})
        /\ \A k \in 1..Len(load_log[i].offered) :
              (/\ load_log[i].db_ok
               /\ load_log[i].offered[k].row.customer_id = NoCustomerId
               /\ ~LacksProductOrDate(load_log[i], k))
                  => \E n \in 1..Len(load_log[i].stored) :
                        /\ load_log[i].stored[n].idx = k
                        /\ load_log[i].stored[n].fact.customer_key /= 0
                        /\ dim_customer[load_log[i].stored[n].fact.customer_key].customer_id
                               = "GUEST"

\* ---------------------------------------------------------------------
\* The hand-off of a run's batches to the loader
\* ---------------------------------------------------------------------

RECURSIVE HandedToLoader(_)
\* The number of records LoaderService.load_fact_rows has been called with,
\* over the calls the loader's log holds.
HandedToLoader(n) ==
    IF n = 0 THEN 0 ELSE Len(load_log[n].offered) + HandedToLoader(n - 1)

\* C12: when a run has completed, every record that survived cleaning and
\* transformation has been handed to LoaderService.load_fact_rows exactly
\* once as part of a batch: the records the loader was called with are as
\* many as the records transformed, and a run that transformed a record
\* called the loader with a non-empty list.
C12_SurvivorsHandedToLoader ==
    (RunEnded /\ metrics.status \in {"SUCCESS", "PARTIAL"})
        => /\ HandedToLoader(Len(load_log)) = metrics.records_transformed
           /\ metrics.records_transformed > 0
                  => \E i \in 1..Len(load_log) : load_log[i].offered /= <<>>

(***************************************************************************)
(* Specification of one record taken through the cleaner                   *)
(* (MissingValueHandler.handle_missing, then RetailDataCleaner.clean) and  *)
(* through RetailDataTransformer.transform.  The record is the only one the *)
(* cleaner sees, so the duplicate handler lets it pass.                    *)
(***************************************************************************)
TxInvoices == {"536365", "C567125"}
TxStockCodes == {"85123A", "AMAZONFEE", "BANKCHARGES", "POST", "DOT", "D", "M", "S",
                 "CRUK", "PADS", "C2", "GIFT_0001_20", "DCGSSBOY", "DCGSSGIRL",
                 "DCGS0003", "post"}
TxQuantities == {"2", "-1"}
TxPrices == {"3.50", "-1.00"}
TxCustomers == {"17850", ""}
TxDescriptions == {"WHITE HANGING HEART", "POSTAGE"}

TxRawRecords ==
    {Raw(inv, sc, desc, qty, "2010-12-01 08:26:00", price, cust, "United Kingdom") :
        inv \in TxInvoices, sc \in TxStockCodes, desc \in TxDescriptions,
        qty \in TxQuantities, price \in TxPrices, cust \in TxCustomers}

\* the rule list as built, and the same list with validate_non_negative_price
\* set to severity WARNING
TxSeverities == {DefaultSeverity, [DefaultSeverity EXCEPT ![3] = "WARNING"]}

\* cleaning_pipeline.clean_record(record), up to the duplicate check
TxClean ==
    /\ tx_pc = "raw"
    /\ LET filled == handle_missing(tx_raw)
           res == IF filled = None THEN None
                  ELSE clean_with_rules(filled, tx_severity)
       IN /\ tx_clean' = res
          /\ tx_pc' = IF res = None THEN "rejected" ELSE "cleaned"
    /\ UNCHANGED <<tx_raw, tx_severity, tx_out, qVars, partVars, svcVars, WarehouseIdle>>

\* transformer.transform(cleaned_record)
TxTransform ==
    /\ tx_pc = "cleaned"
    /\ tx_out' = app_transform(tx_clean, "test-batch")
    /\ tx_pc' = "transformed"
    /\ UNCHANGED <<tx_raw, tx_severity, tx_clean, qVars, partVars, svcVars, WarehouseIdle>>

InitTransform ==
    /\ CleanerInit /\ WarehouseInit /\ CacheInit /\ PipelineInit /\ batch_size = 1
    /\ RunsInit /\ LookupIdleInit /\ LoaderIdleInit
    /\ QualityIdleInit /\ PartitionIdleInit /\ ServiceIdleInit
    /\ tx_pc = "raw"
    /\ tx_raw \in TxRawRecords
    /\ tx_severity \in TxSeverities
    /\ tx_clean = None
    /\ tx_out = None
NextTransform == TxClean \/ TxTransform
SpecTransform == InitTransform /\ [][NextTransform]_vars

\* ---------------------------------------------------------------------
\* Properties of the transformer and of the cleaner's validation
\* ---------------------------------------------------------------------
Transformed == tx_pc = "transformed"

CreditInvoice == StartsWithC(tx_raw.InvoiceNo)

SpecialCategories == {"Fees", "Shipping", "Discount", "Charity", "Adjustment",
                      "Gift Voucher", "Services"}

\* the transaction type of a Merchandise (or other non-special) record, with
\* the given name for a negative quantity on a non-credit invoice
MerchandiseType(negative_non_credit) ==
    IF CreditInvoice /\ tx_out.quantity <= 0 THEN "RETURN"
    ELSE IF ~CreditInvoice /\ tx_out.quantity < 0 THEN negative_non_credit
    ELSE "SALE"

BasicSaleKept ==
    (~CreditInvoice /\ ParseQuantity(tx_raw.Quantity) > 0)
        => /\ tx_out.transaction_type = "SALE"
           /\ tx_out.invoice_no = ParseInvoiceInt(tx_raw.InvoiceNo)
           /\ tx_out.quantity = ParseQuantity(tx_raw.Quantity)

FeeShippingDiscount(fee, shipping, discount) ==
    CASE tx_out.category = "Fees"     -> fee
      [] tx_out.category = "Shipping" -> shipping
      [] OTHER                        -> discount

C15_ServicesAreService ==
    (Transformed /\ tx_out.category = "Services")
        => tx_out.transaction_type = "SERVICE"

\* C16: a raw record whose CustomerID is empty carries customer_id GUEST
\* after the cleaner and the transformer.
C16_EmptyCustomerBecomesGuest ==
    (Transformed /\ tx_raw.CustomerID = "")
        => tx_out.customer_id = "GUEST"

\* the validation outcome of the record the cleaner was given
TxValidation ==
    apply_validation_rules(apply_cleaning_rules(handle_missing(tx_raw)), tx_severity, 1,
        [validation_passed |-> TRUE, errors |-> {}, warnings |-> {}])

\* C18: RetailDataCleaner.clean rejects a record only for a failing rule of
\* severity ERROR; when only rules of severity WARNING fail, the record is
\* returned cleaned.
C18_WarningsDoNotReject ==
    (/\ tx_pc \in {"cleaned", "rejected", "transformed"}
     /\ handle_missing(tx_raw) /= None
     /\ TxValidation.errors = {})
        => tx_clean /= None

\* ---------------------------------------------------------------------
\* The dim_customer rows a load creates
\* ---------------------------------------------------------------------
\* row key of dim_customer was created for a record of the batch and holds
\* that record's country
CountryOfReferringRecord(table, key, offered) ==
    \E k \in 1..Len(offered) :
        /\ CustomerIdOfRow(offered[k].row) = table[key].customer_id
        /\ offered[k].row.country = table[key].country

\* C17: a dim_customer row that load_fact_rows creates for a customer_id first
\* seen in the batch holds the country of a record of the batch that refers
\* to that customer, on the bulk path and on the per-row fallback path.
C17_NewCustomerHasRecordCountry ==
    [][Len(load_log') > Len(load_log)
         => \A key \in (Len(dim_customer) + 1)..Len(dim_customer') :
                CountryOfReferringRecord(dim_customer', key,
                                         load_log'[Len(load_log')].offered)]_vars

(***************************************************************************)
(* DataQualityMonitor of app/retail_data_platform/monitoring/quality.py,   *)
(* checking records of dim_customer.  A metric value is the percentage     *)
(* num / den, kept as the pair so that no rounding enters a comparison.    *)
(***************************************************************************)
MaxQualityRecords == 3  \* records handed to one check_data_quality call

Percentage(part, total) == [num |-> part * 100, den |-> total]

\* metric_value=0.0
ZeroMetric == [num |-> 0, den |-> 1]

\* the default of QualityThreshold.operator: the declaration
\*     operator: str = ">=",
\* ends in a comma, so the default is the one-element tuple (">=",), which is
\* written here as a text that equals none of the operator strings
DefaultOperator == "('>=',)"

QualityThreshold(metric_name, threshold_value) ==
    [metric_name |-> metric_name, threshold_value |-> threshold_value,
     operator |-> DefaultOperator, enabled |-> TRUE]

\* DataQualityMonitor._initialize_thresholds, the thresholds of dim_customer
quality_thresholds ==
    <<QualityThreshold("customer_id_completeness", 90),
      QualityThreshold("country_completeness", 95),
      QualityThreshold("customer_id_uniqueness", 100)>>

\* DataQualityMonitor.quality_rules['dim_customer']: the rule and, from
\* _get_column_for_rule, its column
quality_rules ==
    <<[name |-> "customer_id_completeness", kind |-> "completeness",
       column |-> "customer_id"],
      [name |-> "country_completeness", kind |-> "completeness", column |-> "country"],
      [name |-> "customer_id_uniqueness", kind |-> "uniqueness",
       column |-> "customer_id"]>>

\* CompletenessRule.calculate_metric
completeness_metric(data, column_name) ==
    IF data = <<>> THEN ZeroMetric
    ELSE Percentage(Cardinality({i \in 1..Len(data) : Strip(data[i][column_name]) /= ""}),
                    Len(data))

\* UniquenessRule.calculate_metric: no value of these records is None
uniqueness_metric(data, column_name) ==
    IF data = <<>> THEN ZeroMetric
    ELSE Percentage(Cardinality({data[i][column_name] : i \in 1..Len(data)}), Len(data))

\* DataQualityMonitor._get_threshold: the first enabled threshold of the
\* metric, None when there is none
get_threshold(metric_name) ==
    LET found == {k \in 1..Len(quality_thresholds) :
                     /\ quality_thresholds[k].metric_name = metric_name
                     /\ quality_thresholds[k].enabled}
    IN IF found = {} THEN None
       ELSE quality_thresholds[CHOOSE k \in found : \A j \in found : k <= j]

\* metric_value >= threshold_value
AtLeast(metric_value, threshold_value) ==
    metric_value.num >= threshold_value * metric_value.den

\* abs(metric_value - threshold_value) < 0.01
WithinHundredth(metric_value, threshold_value) ==
    Abs(metric_value.num - threshold_value * metric_value.den) * 100 < metric_value.den

\* DataQualityMonitor._evaluate_threshold
evaluate_threshold(metric_value, threshold) ==
    IF threshold.operator = ">=" THEN AtLeast(metric_value, threshold.threshold_value)
    ELSE IF threshold.operator = "<="
         THEN metric_value.num <= threshold.threshold_value * metric_value.den
    ELSE IF threshold.operator = "=="
         THEN WithinHundredth(metric_value, threshold.threshold_value)
    ELSE IF threshold.operator = "!="
         THEN ~WithinHundredth(metric_value, threshold.threshold_value)
    ELSE TRUE

\* the QualityResult of one rule, thresholds applied
quality_result(data, rule) ==
    LET metric_value == IF rule.kind = "completeness"
                        THEN completeness_metric(data, rule.column)
                        ELSE uniqueness_metric(data, rule.column)
        threshold == get_threshold(rule.name)
    IN IF threshold = None
       THEN [metric_name |-> rule.name, metric_value |-> metric_value,
             has_threshold |-> FALSE, threshold_value |-> 0, is_threshold_met |-> FALSE]
       ELSE [metric_name |-> rule.name, metric_value |-> metric_value,
             has_threshold |-> TRUE, threshold_value |-> threshold.threshold_value,
             is_threshold_met |-> evaluate_threshold(metric_value, threshold)]

\* DataQualityMonitor.check_data_quality(data, 'dim_customer'): the results
check_data_quality(data) ==
    [k \in 1..Len(quality_rules) |-> quality_result(data, quality_rules[k])]

QualityRecords ==
    [customer_id : {"17850", "12345", ""}, country : {"United Kingdom", ""}]

QualityData ==
    UNION {[1..n -> QualityRecords] : n \in 0..MaxQualityRecords}

CheckDataQuality ==
    /\ q_results = <<>>
    /\ q_results' = q_results \o check_data_quality(q_data)
    /\ UNCHANGED <<q_data, txVars, partVars, svcVars, WarehouseIdle>>

InitQuality ==
    /\ CleanerInit /\ WarehouseInit /\ CacheInit /\ PipelineInit /\ batch_size = 1
    /\ RunsInit /\ LookupIdleInit /\ LoaderIdleInit
    /\ TransformIdleInit /\ PartitionIdleInit /\ ServiceIdleInit
    /\ q_data \in QualityData
    /\ q_results = <<>>
NextQuality == CheckDataQuality
SpecQuality == InitQuality /\ [][NextQuality]_vars

\* C19: for every rule with an enabled threshold, check_data_quality records
\* is_threshold_met = true exactly when the metric value satisfies the
\* threshold under its operator, which for the thresholds of the monitor is
\* >=: metric_value >= threshold_value.
C19_ThresholdMetIffSatisfied ==
    \A i \in 1..Len(q_results) :
        q_results[i].has_threshold
            => (q_results[i].is_threshold_met
                    <=> AtLeast(q_results[i].metric_value, q_results[i].threshold_value))

(***************************************************************************)
(* The range partitions of fact_sales.  A datetime is an instant on a grid *)
(* of InstantsPerYear instants a year, the first of them the year's first  *)
(* instant; a partition is named by its year (fact_sales_y<year>) and      *)
(* holds the instants from <= dt < to.                                     *)
(***************************************************************************)
PartitionYears == 3     \* the years the datetimes of the calls range over
InstantsPerYear == 3    \* instants told apart within one year
MaxEnsureCalls == 2     \* ensure_partitions_for_range calls on one database

PartitionYearSet == 2010..(2009 + PartitionYears)

\* datetime.year
YearOf(dt) == dt \div InstantsPerYear

\* datetime(year, 1, 1)
YearStart(year) == year * InstantsPerYear

Instants == {dt \in YearStart(2010)..YearStart(2010 + PartitionYears) :
                YearOf(dt) \in PartitionYearSet}

\* the partition of one year: FOR VALUES FROM (year-01-01) TO (year+1-01-01)
yearly_partition(year) ==
    [name |-> year, from |-> YearStart(year), to |-> YearStart(year + 1)]

\* retail_dw.create_yearly_partitions(start_year, end_year): one partition a
\* year, created if no partition of that name exists
create_yearly_partitions(parts, start_year, end_year) ==
    parts \cup {yearly_partition(year) : year \in
                   {y \in start_year..end_year : \A q \in parts : q.name /= y}}

\* a call that passes the year of min_dt for both years
ensure_partitions_for_start_year(parts, min_dt, max_dt) ==
    create_yearly_partitions(parts, YearOf(min_dt), YearOf(min_dt))

\* SchemaManager.ensure_partitions_for_range(min_dt, max_dt)
ensure_partitions_for_range(parts, min_dt, max_dt) ==
    create_yearly_partitions(parts, YearOf(min_dt), YearOf(max_dt))

CallsMade == IF part_call = None THEN 0 ELSE part_call.n

EnsurePartitions ==
    /\ CallsMade < MaxEnsureCalls
    /\ \E min_dt, max_dt \in Instants :
           /\ min_dt <= max_dt
           /\ partitions' = ensure_partitions_for_range(partitions, min_dt, max_dt)
           /\ part_call' = [min_dt |-> min_dt, max_dt |-> max_dt, n |-> CallsMade + 1,
                            existed |-> partitions]
    /\ UNCHANGED <<txVars, qVars, svcVars, WarehouseIdle>>

InitPartitions ==
    /\ CleanerInit /\ WarehouseInit /\ CacheInit /\ PipelineInit /\ batch_size = 1
    /\ RunsInit /\ LookupIdleInit /\ LoaderIdleInit
    /\ TransformIdleInit /\ QualityIdleInit /\ PartitionIdleInit /\ ServiceIdleInit
NextPartitions == EnsurePartitions
SpecPartitions == InitPartitions /\ [][NextPartitions]_vars

PartitionsHolding(dt) == {q \in partitions : q.from <= dt /\ dt < q.to}

SourceAborted == RunEnded /\ metrics.extraction_errors > metrics.loading_errors

\* C21: a job whose source is unavailable (the CSV file does not exist, or
\* cannot be read) ends as a failed run: the run's status is FAILED and its
\* lineage row is recorded FAILED.  (A run cancelled after it failed shows
\* CANCELLED; a run whose lineage row could not be written has none.)
C21_SourceUnavailableFailsRun ==
    /\ pc = "raised" => (metrics.status = "FAILED" /\ lineage_status = "FAILED")
    /\ SourceAborted => /\ metrics.status \in {"FAILED", "CANCELLED"}
                        /\ lineage_status \in {"FAILED", ""}

\* ---------------------------------------------------------------------
\* The per-row fallback of a failed fact commit
\* ---------------------------------------------------------------------
\* the single-transaction insert of the call's fact objects failed
BulkInsertFailed(e) == e.built /= <<>> /\ ~AppCommitSucceeds(e.built, e.db_ok)

\* C22: whenever the single-transaction insert of a batch's fact rows fails,
\* each fact row is inserted on its own, and the count reported as inserted
\* is the number of rows whose own insert succeeded, on the bulk path and on
\* the per-row dimension fallback path alike.
C22_FailedBulkFallsBackPerRow ==
    \A k \in 1..Len(load_log) :
        BulkInsertFailed(load_log[k]) =>
            /\ load_log[k].stored = StoredOneByOne(load_log[k].built, load_log[k].db_ok)
            /\ load_log[k].inserted = Len(StoredOneByOne(load_log[k].built, load_log[k].db_ok))

\* ---------------------------------------------------------------------
\* A batch whose partitions could not be ensured
\* ---------------------------------------------------------------------
\* the call built fact objects and its ensure_partitions_for_range raised
PartitionCreateFailed(e) == e.built /= <<>> /\ ~e.part_ok

\* C23: when creating the partitions for a batch fails for good, the failure
\* is fatal: none of the batch's fact rows is inserted.
C23_PartitionFailureIsFatal ==
    \A k \in 1..Len(load_log) :
        PartitionCreateFailed(load_log[k]) =>
            load_log[k].inserted = 0 /\ load_log[k].stored = <<>>

(***************************************************************************)
(* DatabaseManager.execute_query: one call, attempt by attempt.            *)
(***************************************************************************)
MaxConfiguredRetries == 7   \* the largest config.etl.max_retries tried

\* everything but the services, at rest
WarehouseIdleInit ==
    /\ CleanerInit /\ WarehouseInit /\ CacheInit /\ PipelineInit /\ batch_size = 1
    /\ RunsInit /\ LookupIdleInit /\ LoaderIdleInit
    /\ TransformIdleInit /\ QualityIdleInit /\ PartitionIdleInit
UnitIdle == <<txVars, qVars, partVars>>
QueryIdle == <<WarehouseIdle, UnitIdle, lcVars, ckVars, pfVars, scdVars, schVars, jmVars>>

\* 2 ** n
RECURSIVE Pow2(_)
Pow2(n) == IF n = 0 THEN 1 ELSE 2 * Pow2(n - 1)

\* the call enters `for attempt in range(max_retries)`; an empty range runs
\* the body not once, and the function falls off its end returning None
ExecuteQuery ==
    /\ eq_pc = "idle"
    /\ IF eq_max_retries <= 0
       THEN eq_pc' = "returned" /\ eq_result' = [value |-> "None"]
       ELSE eq_pc' = "attempting" /\ eq_result' = eq_result
    /\ UNCHANGED <<eq_max_retries, eq_kind, eq_attempt, eq_attempts, eq_wait, QueryIdle>>

\* session.execute and session.commit succeed: fetchall's rows are returned,
\* or None for a statement that returns no rows
AttemptSucceeds ==
    /\ eq_pc = "attempting"
    /\ eq_attempts' = eq_attempts + 1
    /\ eq_pc' = "returned"
    /\ eq_result' = [value |-> IF eq_kind = "select" THEN "rows" ELSE "None"]
    /\ UNCHANGED <<eq_max_retries, eq_kind, eq_attempt, eq_wait, QueryIdle>>

\* the attempt raises: sleep 2 ** attempt seconds before the next one, or
\* re-raise after the last
AttemptFails ==
    /\ eq_pc = "attempting"
    /\ eq_attempts' = eq_attempts + 1
    /\ IF eq_attempt < eq_max_retries - 1
       THEN eq_pc' = "sleeping" /\ eq_wait' = Pow2(eq_attempt)
       ELSE eq_pc' = "raised" /\ eq_wait' = eq_wait
    /\ UNCHANGED <<eq_max_retries, eq_kind, eq_attempt, eq_result, QueryIdle>>

\* time.sleep returns and the loop goes on to the next attempt
NextAttempt ==
    /\ eq_pc = "sleeping"
    /\ eq_pc' = "attempting"
    /\ eq_attempt' = eq_attempt + 1
    /\ UNCHANGED <<eq_max_retries, eq_kind, eq_attempts, eq_wait, eq_result, QueryIdle>>

InitQuery ==
    /\ WarehouseIdleInit
    /\ eq_pc = "idle"
    /\ eq_max_retries \in 0..MaxConfiguredRetries
    /\ eq_kind \in {"select", "ddl"}
    /\ eq_attempt = 0
    /\ eq_attempts = 0
    /\ eq_wait = 0
    /\ eq_result = None
    /\ LookupCacheIdleInit /\ CheckpointIdleInit /\ FoldIdleInit /\ ScdIdleInit /\ SchedulerIdleInit /\ JobsIdleInit
NextQuery ==
    \/ ExecuteQuery
    \/ AttemptSucceeds
    \/ AttemptFails
    \/ NextAttempt
SpecQuery == InitQuery /\ [][NextQuery]_vars

\* C24: execute_query makes at most max_retries attempts, whatever
\* max_retries is configured; it returns only after an attempt succeeded, with
\* that attempt's result; between two attempts it waits 2^attempt seconds and
\* never more than 30; and it raises only after max_retries failed attempts.
C24_BoundedRetriesWithCappedBackoff ==
    /\ eq_attempts <= eq_max_retries
    /\ eq_pc = "sleeping" => eq_wait = Pow2(eq_attempt) /\ eq_wait <= 30
    /\ eq_pc = "returned" => eq_attempts >= 1
    /\ eq_pc = "raised" => eq_attempts = eq_max_retries

(***************************************************************************)
(* DimensionLookupCache: set_* calls against a small cache_size.           *)
(***************************************************************************)
MaxCacheSize == 3       \* the largest cache_size tried

\* the natural keys offered: one more than the largest cache holds
CacheIds == 1..(MaxCacheSize + 1)
\* set_* calls made on one cache
MaxCacheCalls == MaxCacheSize + 1

Namespaces == {"customer", "product", "date"}

\* the cache key each set_* builds from its arguments: 'customer_id|country',
\* the stock code, the date as text
CacheKey(ns, id) == IF ns = "customer" THEN <<id, "United Kingdom">> ELSE <<id>>

\* the surrogate key stored for a natural key
SurrogateKey(id) == 100 + id

KeysOf(cache) == {cache[i].key : i \in 1..Len(cache)}

\* cache[cache_key] = value on a dict: a new key goes last, a known key keeps
\* its place
dict_set(cache, k, v) ==
    IF k \in KeysOf(cache)
    THEN [i \in 1..Len(cache) |-> IF cache[i].key = k THEN [key |-> k, value |-> v]
                                                     ELSE cache[i]]
    ELSE Append(cache, [key |-> k, value |-> v])

\* int(cache_size * 0.8)
KeptAfterEviction(size) == (8 * size) \div 10

\* _manage_cache_size dropping the newest entries instead
manage_cache_size_newest_first(cache, size) == IF Len(cache) > size THEN SubSeq(cache, 1, KeptAfterEviction(size)) ELSE cache

\* DimensionLookupCache._manage_cache_size: the first
\* len(cache) - int(cache_size * 0.8) keys of the dict are deleted
manage_cache_size(cache, size) == IF Len(cache) > size THEN SubSeq(cache, Len(cache) - KeptAfterEviction(size) + 1, Len(cache)) ELSE cache

\* set_customer_key, set_product_key, set_date_key
SetKey ==
    /\ lc_calls < MaxCacheCalls
    /\ \E ns \in Namespaces, id \in CacheIds :
           /\ lc_caches' = [lc_caches EXCEPT ![ns] =
                               manage_cache_size(dict_set(@, CacheKey(ns, id),
                                                          SurrogateKey(id)),
                                                 lc_size)]
           /\ lc_last' = [ns |-> ns, key |-> CacheKey(ns, id), before |-> lc_caches]
    /\ lc_calls' = lc_calls + 1
    /\ UNCHANGED <<lc_size, WarehouseIdle, UnitIdle, eqVars, ckVars, pfVars, scdVars, schVars, jmVars>>

InitLookupCache ==
    /\ WarehouseIdleInit /\ QueryIdleInit /\ CheckpointIdleInit /\ FoldIdleInit /\ ScdIdleInit /\ SchedulerIdleInit /\ JobsIdleInit
    /\ lc_size \in 2..MaxCacheSize
    /\ lc_caches = [n \in Namespaces |-> <<>>]
    /\ lc_last = None
    /\ lc_calls = 0
NextLookupCache == SetKey
SpecLookupCache == InitLookupCache /\ [][NextLookupCache]_vars

\* the last set_* call found its namespace full and brought a new key
LastSetExceeded ==
    /\ lc_last /= None
    /\ lc_last.key \notin KeysOf(lc_last.before[lc_last.ns])
    /\ Len(lc_last.before[lc_last.ns]) = lc_size

\* the entries of the namespace the last call did not keep
EvictedByLastSet ==
    Len(lc_last.before[lc_last.ns]) + 1 - Len(lc_caches[lc_last.ns])

\* C25: after any sequence of set_* calls every namespace holds at most
\* cache_size entries; a call that makes its namespace exceed the bound
\* evicts exactly the oldest entries by insertion order (all but the newest
\* 80% of the bound) and keeps the key it inserted; a call that does not
\* exceed the bound evicts nothing; the other namespaces are left as they were.
C25_BoundedOldestFirstEviction ==
    /\ \A n \in Namespaces : Len(lc_caches[n]) <= lc_size
    /\ lc_last /= None =>
         LET before == lc_last.before[lc_last.ns]
             after == lc_caches[lc_last.ns]
         IN /\ \A n \in Namespaces \ {lc_last.ns} : lc_caches[n] = lc_last.before[n]
            /\ lc_last.key \in KeysOf(after)
            /\ IF LastSetExceeded
               THEN /\ EvictedByLastSet = lc_size + 1 - KeptAfterEviction(lc_size)
                    /\ EvictedByLastSet >= 1
                    /\ after[Len(after)].key = lc_last.key
                    /\ \A i \in 1..(Len(after) - 1) : after[i] = before[i + EvictedByLastSet]
               ELSE KeysOf(after) = KeysOf(before) \cup {lc_last.key}

\* a full namespace took a new key while another namespace held entries
C25_Witness ==
    /\ LastSetExceeded
    /\ \E n \in Namespaces \ {lc_last.ns} : lc_caches[n] /= <<>>
    /\ Len(lc_caches[lc_last.ns]) < lc_size

(***************************************************************************)
(* ETLPipeline._execute_extract_stage, followed for its checkpoints alone, *)
(* over every batch_size and checkpoint_interval.                          *)
(***************************************************************************)
MaxCheckpointInterval == 3  \* batch_size and checkpoint_interval range over 1..this
MaxCheckpointRecords == 6   \* records the source yields at most

CheckpointIdle == <<WarehouseIdle, UnitIdle, eqVars, lcVars, pfVars, scdVars, schVars, jmVars>>

\* one turn of the loop over ingest_from_source: the record joins the batch;
\* a full batch is processed and emptied, and only then, when
\* records_processed is a multiple of checkpoint_interval, a checkpoint saved
ExtractNext ==
    /\ ck_pc = "extracting"
    /\ ck_processed < MaxCheckpointRecords
    /\ ck_processed' = ck_processed + 1
    /\ IF ck_batch + 1 >= ck_batch_size
       THEN /\ ck_batch' = 0
            /\ ck_saved' = IF (ck_processed + 1) % ck_interval = 0
                           THEN Append(ck_saved, ck_processed + 1)
                           ELSE ck_saved
       ELSE /\ ck_batch' = ck_batch + 1
            /\ ck_saved' = ck_saved
    /\ UNCHANGED <<ck_pc, ck_batch_size, ck_interval, CheckpointIdle>>

\* the source is exhausted: the remaining records are processed and the final
\* checkpoint saved
ExtractEnd ==
    /\ ck_pc = "extracting"
    /\ ck_pc' = "done"
    /\ ck_batch' = 0
    /\ ck_saved' = Append(ck_saved, ck_processed)
    /\ UNCHANGED <<ck_batch_size, ck_interval, ck_processed, CheckpointIdle>>

\* the source or _process_batch raises: the stage re-raises, saving nothing
ExtractRaises ==
    /\ ck_pc = "extracting"
    /\ ck_pc' = "failed"
    /\ UNCHANGED <<ck_batch_size, ck_interval, ck_processed, ck_batch, ck_saved,
                   CheckpointIdle>>

InitCheckpoint ==
    /\ WarehouseIdleInit /\ QueryIdleInit /\ LookupCacheIdleInit /\ FoldIdleInit /\ ScdIdleInit /\ SchedulerIdleInit /\ JobsIdleInit
    /\ ck_pc = "extracting"
    /\ ck_batch_size \in 1..MaxCheckpointInterval
    /\ ck_interval \in 1..MaxCheckpointInterval
    /\ ck_processed = 0
    /\ ck_batch = 0
    /\ ck_saved = <<>>
NextCheckpoint ==
    \/ ExtractNext
    \/ ExtractEnd
    \/ ExtractRaises
SpecCheckpoint == InitCheckpoint /\ [][NextCheckpoint]_vars

CheckpointSaved(n) == \E i \in 1..Len(ck_saved) : ck_saved[i] = n

\* C26: during extraction, for any batch_size and checkpoint_interval, every
\* multiple k * checkpoint_interval (k >= 1) of the interval that the records
\* processed so far have reached has had its checkpoint saved; the
\* records_processed of successive checkpoints never decrease; and the final
\* checkpoint is the total number of records extracted.
C26_CheckpointEveryInterval ==
    /\ \A k \in 1..MaxCheckpointRecords :
           k * ck_interval <= ck_processed => CheckpointSaved(k * ck_interval)
    /\ \A i \in 1..(Len(ck_saved) - 1) : ck_saved[i] <= ck_saved[i + 1]
    /\ ck_pc = "done" => ck_saved /= <<>> /\ ck_saved[Len(ck_saved)] = ck_processed

(***************************************************************************)
(* The product attributes load_fact_rows folds over the rows of a batch.   *)
(***************************************************************************)
MaxFoldRows == 3        \* rows of the batch handed to the fold

FoldStockCodes == {"85123A", "71053"}
\* two of the descriptions are equally long
FoldDescriptions == {"", "White Hanging Heart", "Cream Cupid Hearts", "Spaceboy Lunch Box"}
\* category and subcategory as the transformer pairs them; "" for a row
\* without them
FoldCategories ==
    {[category |-> "", subcategory |-> ""],
     [category |-> "Merchandise", subcategory |-> "General"],
     [category |-> "Shipping", subcategory |-> "Postage"]}

FoldRows ==
    {[stock_code |-> sc, description |-> d, category |-> c.category,
      subcategory |-> c.subcategory, is_gift |-> g] :
        sc \in FoldStockCodes, d \in FoldDescriptions, c \in FoldCategories, g \in BOOLEAN}

\* the loop of load_fact_rows that fills prod_attrs
FoldBatch ==
    /\ pf_attrs = None
    /\ pf_attrs' = [sc \in FoldStockCodes |-> prod_attrs(pf_rows, sc)]
    /\ UNCHANGED <<pf_rows, WarehouseIdle, UnitIdle, eqVars, lcVars, ckVars, scdVars, schVars, jmVars>>

InitFold ==
    /\ WarehouseIdleInit /\ QueryIdleInit /\ LookupCacheIdleInit /\ CheckpointIdleInit /\ ScdIdleInit /\ SchedulerIdleInit /\ JobsIdleInit
    /\ pf_rows \in UNION {[1..n -> FoldRows] : n \in 1..MaxFoldRows}
    /\ pf_attrs = None
NextFold == FoldBatch
SpecFold == InitFold /\ [][NextFold]_vars

\* the positions of the batch's rows for stock code sc
RowsFor(sc) == {i \in 1..Len(pf_rows) : pf_rows[i].stock_code = sc}

\* the rows of the batch in reverse order
ReversedRows == [i \in 1..Len(pf_rows) |-> pf_rows[Len(pf_rows) + 1 - i]]

\* the first non-empty value of a field among the rows for sc, "" if none
FirstNonEmpty(sc, field) ==
    LET S == {i \in RowsFor(sc) : pf_rows[i][field] /= ""}
    IN IF S = {} THEN "" ELSE pf_rows[CHOOSE i \in S : \A j \in S : i <= j][field]

\* C27: for the rows of a batch that share a stock code, the folded
\* description is a longest one among them, category and subcategory are the
\* first non-empty values in batch order, is_gift is the OR of their flags;
\* and description and is_gift are the same whatever the order of the rows.
C27_ProductAttributesFolded ==
    pf_attrs /= None =>
        \A sc \in FoldStockCodes :
            RowsFor(sc) /= {} =>
                /\ \E i \in RowsFor(sc) : pf_attrs[sc].description = pf_rows[i].description
                /\ \A i \in RowsFor(sc) :
                       Len(pf_rows[i].description) <= Len(pf_attrs[sc].description)
                /\ pf_attrs[sc].category = FirstNonEmpty(sc, "category")
                /\ pf_attrs[sc].subcategory = FirstNonEmpty(sc, "subcategory")
                /\ pf_attrs[sc].is_gift = (\E i \in RowsFor(sc) : pf_rows[i].is_gift)
                /\ prod_attrs(ReversedRows, sc).description = pf_attrs[sc].description
                /\ prod_attrs(ReversedRows, sc).is_gift = pf_attrs[sc].is_gift

(***************************************************************************)
(* RetailDataTransformer._lookup_customer_key called again and again by    *)
(* one transformer, the customers moving from country to country.          *)
(***************************************************************************)
MaxLookupCalls == 4     \* _lookup_customer_key calls made

ScdCustomers == {"17850", "14527"}

\* one _lookup_customer_key(customer_id, country) call
LookupCustomerKey ==
    /\ scd_calls < MaxLookupCalls
    /\ \E cid \in ScdCustomers, country \in Countries :
           LET res == lookup_customer_key(TransformerState, cid, country) IN
           /\ dim_customer' = res.ts.dim_customer
           /\ cache_customer' = res.ts.cache_customer
           /\ scd_last' = [customer_id |-> cid, country |-> country, key |-> res.key,
                           cache_hit |-> (cid \o "|" \o country) \in DOMAIN cache_customer]
    /\ scd_calls' = scd_calls + 1
    /\ UNCHANGED <<cleanVars, dim_product, dim_date, fact_sales, data_versions,
                   cache_product, cache_date, pipeVars, runVars, lookupVars, loadVars>>
    /\ UNCHANGED <<UnitIdle, eqVars, lcVars, ckVars, pfVars, schVars, jmVars>>

InitScd ==
    /\ WarehouseIdleInit /\ QueryIdleInit /\ LookupCacheIdleInit /\ CheckpointIdleInit /\ FoldIdleInit /\ SchedulerIdleInit /\ JobsIdleInit
    /\ scd_last = None
    /\ scd_calls = 0
NextScd == LookupCustomerKey
SpecScd == InitScd /\ [][NextScd]_vars

\* C28: whatever the sequence of _lookup_customer_key calls for a customer_id
\* with varying countries, the key a call returns is the key of the
\* customer's is_current row at that moment; a cache hit never returns the
\* key of an expired row.
C28_ReturnsCurrentCustomerRow ==
    scd_last /= None =>
        /\ scd_last.key \in CurrentCustomerRows(dim_customer, scd_last.customer_id)
        /\ dim_customer[scd_last.key].is_current

(***************************************************************************)
(* ETLScheduler.start and stop, called by one thread, and the loop threads *)
(* they start.  schedule.run_pending takes the due jobs as a sorted list   *)
(* and runs them one after another; a job's next_run is moved on only      *)
(* when its function has returned.                                         *)
(***************************************************************************)
MaxSchedulerThreads == 2    \* loop threads started by start()
MaxDueTimes == 2            \* times the scheduled jobs fall due

\* two daily jobs registered for the same time of day, in the order
\* run_pending sorts them
ScheduledJobs == <<"daily_a", "daily_b">>
JobNames == {ScheduledJobs[i] : i \in 1..Len(ScheduledJobs)}

SchedulerIdle == <<WarehouseIdle, UnitIdle, eqVars, lcVars, ckVars, pfVars, scdVars, jmVars>>

NoThread == [pc |-> "none", todo |-> <<>>, job |-> ""]

\* the clock reaches the time of day the jobs are scheduled at
JobsFallDue ==
    /\ sch_due < MaxDueTimes
    /\ sch_pending = {}
    /\ \A t \in DOMAIN sch_threads : sch_threads[t].pc \notin {"running", "job"}
    /\ sch_due' = sch_due + 1
    /\ sch_pending' = JobNames
    /\ UNCHANGED <<sch_is_running, sch_stop_event, sch_thread, sch_threads, sch_caller,
                   sch_starts, sch_late_start, SchedulerIdle>>

\* ETLScheduler.start
Start ==
    /\ sch_caller = "idle"
    /\ ~sch_is_running
    /\ \E t \in DOMAIN sch_threads :
           /\ sch_threads[t].pc = "none"
           /\ \A u \in DOMAIN sch_threads : u < t => sch_threads[u].pc /= "none"
           /\ sch_threads' = [sch_threads EXCEPT ![t].pc = "check"]
           /\ sch_thread' = t
    /\ sch_stop_event' = FALSE
    /\ sch_is_running' = TRUE
    /\ UNCHANGED <<sch_caller, sch_pending, sch_due, sch_starts, sch_late_start,
                   SchedulerIdle>>

\* ETLScheduler.stop up to the join
StopSetEvent ==
    /\ sch_caller = "idle"
    /\ sch_is_running
    /\ sch_stop_event' = TRUE
    /\ sch_caller' = "joining"
    /\ UNCHANGED <<sch_is_running, sch_thread, sch_threads, sch_pending, sch_due,
                   sch_starts, sch_late_start, SchedulerIdle>>

\* _thread.join(timeout=2) returns, the loop thread having exited, or the two
\* seconds having passed while the loop thread is inside a job; stop then
\* clears is_running
StopJoined ==
    /\ sch_caller = "joining"
    /\ sch_threads[sch_thread].pc \in {"exited", "job"}
    /\ sch_is_running' = FALSE
    /\ sch_caller' = "idle"
    /\ UNCHANGED <<sch_stop_event, sch_thread, sch_threads, sch_pending, sch_due,
                   sch_starts, sch_late_start, SchedulerIdle>>

\* _run_scheduler: while not self._stop_event.is_set()
LoopTest(t) ==
    /\ sch_threads[t].pc = "check"
    /\ sch_threads' = [sch_threads EXCEPT
                          ![t].pc = IF sch_stop_event THEN "exited" ELSE "pending"]
    /\ UNCHANGED <<sch_is_running, sch_stop_event, sch_thread, sch_caller, sch_pending,
                   sch_due, sch_starts, sch_late_start, SchedulerIdle>>

\* schedule.run_pending collects the jobs that should run
RunPending(t) ==
    /\ sch_threads[t].pc = "pending"
    /\ LET todo == SelectSeq(ScheduledJobs, LAMBDA j : j \in sch_pending) IN
       sch_threads' = [sch_threads EXCEPT
                          ![t] = [pc |-> IF todo = <<>> THEN "sleep" ELSE "running",
                                  todo |-> todo, job |-> ""]]
    /\ UNCHANGED <<sch_is_running, sch_stop_event, sch_thread, sch_caller, sch_pending,
                   sch_due, sch_starts, sch_late_start, SchedulerIdle>>

\* run_pending starts the next job of its list: ETLScheduler._run_job begins
RunJobBegins(t) ==
    /\ sch_threads[t].pc = "running"
    /\ LET j == Head(sch_threads[t].todo) IN
       /\ sch_threads' = [sch_threads EXCEPT
                             ![t] = [pc |-> "job", todo |-> Tail(sch_threads[t].todo),
                                     job |-> j]]
       /\ sch_starts' = [sch_starts EXCEPT ![j][sch_due] = @ + 1]
    /\ sch_late_start' = (sch_late_start \/ (~sch_is_running /\ sch_caller = "idle"))
    /\ UNCHANGED <<sch_is_running, sch_stop_event, sch_thread, sch_caller, sch_pending,
                   sch_due, SchedulerIdle>>

\* _run_job returns and schedule moves the job's next_run on; after the last
\* job of the list the loop sleeps
RunJobEnds(t) ==
    /\ sch_threads[t].pc = "job"
    /\ sch_pending' = sch_pending \ {sch_threads[t].job}
    /\ sch_threads' = [sch_threads EXCEPT
                          ![t].pc = IF sch_threads[t].todo = <<>> THEN "sleep"
                                    ELSE "running",
                          ![t].job = ""]
    /\ UNCHANGED <<sch_is_running, sch_stop_event, sch_thread, sch_caller, sch_due,
                   sch_starts, sch_late_start, SchedulerIdle>>

\* time.sleep(1) returns
LoopSleepEnds(t) ==
    /\ sch_threads[t].pc = "sleep"
    /\ sch_threads' = [sch_threads EXCEPT ![t].pc = "check"]
    /\ UNCHANGED <<sch_is_running, sch_stop_event, sch_thread, sch_caller, sch_pending,
                   sch_due, sch_starts, sch_late_start, SchedulerIdle>>

InitScheduler ==
    /\ WarehouseIdleInit /\ QueryIdleInit /\ LookupCacheIdleInit /\ CheckpointIdleInit /\ FoldIdleInit /\ ScdIdleInit /\ JobsIdleInit
    /\ sch_is_running = FALSE
    /\ sch_stop_event = FALSE
    /\ sch_thread = 0
    /\ sch_threads = [t \in 1..MaxSchedulerThreads |-> NoThread]
    /\ sch_caller = "idle"
    /\ sch_pending = {}
    /\ sch_due = 0
    /\ sch_starts = [j \in JobNames |-> [d \in 1..MaxDueTimes |-> 0]]
    /\ sch_late_start = FALSE
NextScheduler ==
    \/ JobsFallDue
    \/ Start
    \/ StopSetEvent
    \/ StopJoined
    \/ \E t \in 1..MaxSchedulerThreads :
           \/ LoopTest(t)
           \/ RunPending(t)
           \/ RunJobBegins(t)
           \/ RunJobEnds(t)
           \/ LoopSleepEnds(t)
SpecScheduler == InitScheduler /\ [][NextScheduler]_vars

\* the loop threads that are inside schedule.run_pending
InRunPending == {t \in DOMAIN sch_threads : sch_threads[t].pc \in {"running", "job"}}

\* C29: however start() and stop() interleave with the loop thread, at most
\* one loop thread is inside schedule.run_pending at a time; no scheduled job
\* is started twice for one due time; and between a stop() that has returned
\* and the next start() no job run begins.
C29_OneLoopThreadOneRunPerDueTime ==
    /\ Cardinality(InRunPending) <= 1
    /\ \A j \in DOMAIN sch_starts : \A d \in DOMAIN sch_starts[j] : sch_starts[j][d] <= 1
    /\ ~sch_late_start

(***************************************************************************)
(* JobManager.create_daily_job and start_scheduler on one jobs file and    *)
(* one ETLScheduler.                                                       *)
(***************************************************************************)
MaxJobCalls == 3        \* JobManager calls made

JobNamesCreated == {"nightly", "catalog"}
JobTimes == {"02:00", "03:00"}
JobPaths == {"sales.csv", "returns.csv"}

JobsIdle == <<WarehouseIdle, UnitIdle, eqVars, lcVars, ckVars, pfVars, scdVars, schVars>>

\* ETLScheduler.add_daily_job on the scheduler state sc = [meta, refs, jobs];
\* id names the schedule job it creates
add_daily_job(sc, id, name, csv_path, time_str) ==
    [meta |-> Put(sc.meta, name, [csv_path |-> csv_path, time |-> time_str]),
     refs |-> Put(sc.refs, name, id),
     jobs |-> (IF name \in DOMAIN sc.refs
               THEN {j \in sc.jobs : j.id /= sc.refs[name]} ELSE sc.jobs)
              \cup {[id |-> id, name |-> name, csv_path |-> csv_path, time |-> time_str]}]

SchedulerRegistrations == [meta |-> jm_meta, refs |-> jm_refs, jobs |-> jm_schedule]

SetRegistrations(sc) ==
    /\ jm_meta' = sc.meta
    /\ jm_refs' = sc.refs
    /\ jm_schedule' = sc.jobs

\* the file after create_daily_job: a job is appended only when no entry of
\* the file has its name
persist_daily_job(jobs, name, csv_path, time_str) ==
    IF \E i \in 1..Len(jobs) : jobs[i].name = name
    THEN jobs
    ELSE Append(jobs, [name |-> name, type |-> "daily", time |-> time_str,
                       csv_path |-> csv_path])

\* JobManager.create_daily_job
CreateDailyJob ==
    /\ jm_calls < MaxJobCalls
    /\ \E name \in JobNamesCreated, csv_path \in JobPaths, time_str \in JobTimes :
           /\ SetRegistrations(add_daily_job(SchedulerRegistrations, jm_calls + 1,
                                             name, csv_path, time_str))
           /\ jm_file' = persist_daily_job(jm_file, name, csv_path, time_str)
           /\ jm_last' = Put(jm_last, name, [csv_path |-> csv_path, time |-> time_str])
    /\ jm_calls' = jm_calls + 1
    /\ UNCHANGED JobsIdle

\* JobManager.start_scheduler: every persisted job is registered again
StartScheduler ==
    /\ jm_calls < MaxJobCalls
    /\ jm_file /= <<>>
    /\ LET reg[i \in 0..Len(jm_file)] ==
               IF i = 0 THEN SchedulerRegistrations
               ELSE add_daily_job(reg[i - 1], 10 * (jm_calls + 1) + i, jm_file[i].name,
                                  jm_file[i].csv_path, jm_file[i].time)
       IN SetRegistrations(reg[Len(jm_file)])
    /\ jm_calls' = jm_calls + 1
    /\ UNCHANGED <<jm_file, jm_last, JobsIdle>>

InitJobs ==
    /\ WarehouseIdleInit /\ QueryIdleInit /\ LookupCacheIdleInit /\ CheckpointIdleInit /\ FoldIdleInit /\ ScdIdleInit /\ SchedulerIdleInit
    /\ jm_file = <<>>
    /\ jm_meta = <<>>
    /\ jm_refs = <<>>
    /\ jm_schedule = {}
    /\ jm_last = <<>>
    /\ jm_calls = 0
NextJobs ==
    \/ CreateDailyJob
    \/ StartScheduler
SpecJobs == InitJobs /\ [][NextJobs]_vars

PersistedEntries(name) == {i \in 1..Len(jm_file) : jm_file[i].name = name}

\* C30: after any sequence of create_daily_job calls the persisted list has
\* at most one entry per job name, the schedule holds at most one job per
\* name, and the persisted entry of a name carries the time and csv_path of
\* the most recent create_daily_job call for that name.
C30_PersistedMatchesLastCreate ==
    \A name \in JobNamesCreated :
        /\ Cardinality(PersistedEntries(name)) <= 1
        /\ Cardinality({j \in jm_schedule : j.name = name}) <= 1
        /\ name \in DOMAIN jm_last =>
               \E i \in PersistedEntries(name) :
                   /\ jm_file[i].time = jm_last[name].time
                   /\ jm_file[i].csv_path = jm_last[name].csv_path

====
